---- MODULE Spec2Model ----
(***************************************************************************)
(* Consensus-nomenclature mapping, gap filling and fragment reconciliation *)
(* of mdciao (nomenclature_utils.py, fragments.py).                        *)
(*                                                                         *)
(* Strings are sequences of one-character strings, so that split, join,    *)
(* int() and '%u' are computed the way Python computes them.  Residue and  *)
(* fragment indices are the 0-based Python indices; list[i] of the source  *)
(* is list[i+1] here.                                                      *)
(***************************************************************************)
EXTENDS Integers, Sequences, FiniteSets, TLC

VARIABLES
    consensus_list,   \* the list object handed to _fill_CGN_gaps
    fill_in,          \* its entries at the time of the call
    defs,             \* _map2defs(consensus_list): <<[key, val]>> in dict order
    key_i,            \* number of entries of defs.items() already walked
    fill_ret,         \* value returned by _fill_CGN_gaps
    fill_pc           \* "idle", "called", "loop", "done", "raised"

VARIABLES
    top,                  \* the topology: its residues, [code, resSeq]
    consensus_dict,       \* the reference table: items [key, label] in dict order
    restrict_to_residxs,  \* NoneIdxs or a list of residue indices
    keep_consensus,       \* the gap-filling flag
    alignment,            \* the alignment as a list of dicts (before the match filter)
    out_list,             \* the list built by _top2consensus_map
    map_ret,              \* value returned by _top2consensus_map
    map_pc                \* "idle", "called", "aligned", "assigned", "filling",
                          \* "done", "raised"

fillVars == <<consensus_list, fill_in, defs, key_i, fill_ret, fill_pc>>

mapVars == <<top, consensus_dict, restrict_to_residxs, keep_consensus,
             alignment, out_list, map_ret, map_pc>>

VARIABLES
    sub_frag,     \* the definition: a list of residue indices
    fragments,    \* the fragment list: a list of lists of residue indices
    keep_all,     \* the keep_all flag of _check_if_subfragment
    rec_inline,   \* TRUE: the inline check of top2defs, FALSE: _check_if_subfragment
    ifrags,       \* fragment index of each residue of the definition (NoFrag: None)
    frag_cands,   \* the distinct fragments touched, in order of appearance
    answr,        \* the text typed at the prompt
    n_inputs,     \* number of calls of input() so far
    rec_ret,      \* the list returned
    rec_pc        \* "idle", "called", "asked", "returned", "raised"

recVars == <<sub_frag, fragments, keep_all, rec_inline, ifrags, frag_cands,
             answr, n_inputs, rec_ret, rec_pc>>

VARIABLES
    pk_top,                         \* the topology handed to the picker
    pk_fragments,                   \* the fragment list handed to the picker
    residue_descriptors,            \* the descriptors, a list of strings
    pick_this_fragment_by_default,  \* NoDefault or a fragment index
    residxs,                        \* the residue indices picked so far
    fragidxs,                       \* the fragment indices picked so far
    last_answer,                    \* the remembered answer
    pk_typed,                       \* the texts typed at the prompts, in order
    pk_pc                           \* "idle", "loop", "returned", "raised"

pickVars == <<pk_top, pk_fragments, residue_descriptors,
              pick_this_fragment_by_default, residxs, fragidxs, last_answer,
              pk_typed, pk_pc>>

VARIABLES
    lab_table,    \* the table the labeler was constructed from
    labeler,      \* the attributes of the LabelerConsensus object
    lab_call,     \* the last method call: its name and arguments
    lab_result,   \* its outcome: raised, the value returned, the map used
    lab_prev_top  \* the topology of the call before the last one

labVars == <<lab_table, labeler, lab_call, lab_result, lab_prev_top>>

VARIABLES
    gf_call,    \* the arguments of get_fragments: top, method, breaker, default
    gf_typed,   \* the text typed if the breaker was ambiguous
    gf_ret,     \* the fragments returned
    gf_pc       \* "idle", "called", "returned", "raised"

gfVars == <<gf_call, gf_typed, gf_ret, gf_pc>>

VARIABLES
    consensus_labels,  \* the labels handed to order_BW
    labs_out,          \* the list order_frags builds
    ord_i,             \* number of fragment names already dealt with
    ord_pc             \* "idle", "names", "returned"

ordVars == <<consensus_labels, labs_out, ord_i, ord_pc>>

VARIABLES
    input_BW_dict,  \* the table handed to guess_missing_BWs
    gm_top,         \* the topology handed to guess_missing_BWs
    gm_restrict,    \* restrict_to_residxs: NoneIdxs or a list of indices
    gm_out,         \* out_list
    gm_i,           \* number of residues of the loop already dealt with
    key_above,      \* the local key_above (Unbound before its assignment)
    key_below,      \* the local key_below (Unbound before its assignment)
    gm_ret,         \* the list returned
    gm_pc           \* "idle", "called", "loop", "returned", "raised"

gmVars == <<input_BW_dict, gm_top, gm_restrict, gm_out, gm_i, key_above,
            key_below, gm_ret, gm_pc>>

\* the state of the functions other than the filler, the mapper and the
\* reconciliation
restVars == <<pickVars, labVars, gfVars, ordVars, gmVars>>

\* the state of the functions other than the picker
notPickVars == <<fillVars, mapVars, recVars, labVars, gfVars, ordVars, gmVars>>

\* the state of the functions other than the methods of the labeler
notLabVars == <<fillVars, mapVars, recVars, pickVars, gfVars, ordVars, gmVars>>

\* the state of the functions other than get_fragments
notGfVars == <<fillVars, mapVars, recVars, pickVars, labVars, ordVars, gmVars>>

\* the state of the functions other than order_frags
notOrdVars == <<fillVars, mapVars, recVars, pickVars, labVars, gfVars, gmVars>>

\* the state of the functions other than guess_missing_BWs
notGmVars == <<fillVars, mapVars, recVars, pickVars, labVars, gfVars, ordVars>>

vars == <<fillVars, mapVars, recVars, restVars>>

----------------------------------------------------------------------------
(* Python values *)

\* Python's None in a list of labels (no label is a one-element tuple of a word)
None == <<"None">>

DigitChars == <<"0", "1", "2", "3", "4", "5", "6", "7", "8", "9">>

AlphaChars ==
    {"A", "B", "C", "D", "E", "F", "G", "H", "I", "J", "K", "L", "M",
     "N", "O", "P", "Q", "R", "S", "T", "U", "V", "W", "X", "Y", "Z",
     "a", "b", "c", "d", "e", "f", "g", "h", "i", "j", "k", "l", "m",
     "n", "o", "p", "q", "r", "s", "t", "u", "v", "w", "x", "y", "z"}

\* str.isnumeric() of one character
isnumeric(c) == \E d \in 1..10 : DigitChars[d] = c

\* str.isalpha() of one character
isalpha(c) == c \in AlphaChars

DigitValue(c) == (CHOOSE d \in 1..10 : DigitChars[d] = c) - 1

\* int(s) for a string of the model's alphabet; -1 stands for ValueError
RECURSIVE int_acc(_, _)
int_acc(s, acc) ==
    IF s = <<>> THEN acc
    ELSE IF ~isnumeric(Head(s)) THEN -1
    ELSE int_acc(Tail(s), 10 * acc + DigitValue(Head(s)))

int(s) == IF s = <<>> THEN -1 ELSE int_acc(s, 0)

\* '%u' % n  (also str(n)) for n >= 0
RECURSIVE str(_)
str(n) ==
    IF n < 10 THEN <<DigitChars[n + 1]>>
    ELSE Append(str(n \div 10), DigitChars[(n % 10) + 1])

\* s.split(sep): always at least one token
RECURSIVE split_acc(_, _, _, _)
split_acc(s, sep, toks, cur) ==
    IF s = <<>> THEN Append(toks, cur)
    ELSE IF Head(s) = sep THEN split_acc(Tail(s), sep, Append(toks, cur), <<>>)
    ELSE split_acc(Tail(s), sep, toks, Append(cur, Head(s)))

split(s, sep) == split_acc(s, sep, <<>>, <<>>)

\* sep.join(toks)
RECURSIVE join(_, _)
join(sep, toks) ==
    IF toks = <<>> THEN <<>>
    ELSE IF Len(toks) = 1 THEN toks[1]
    ELSE toks[1] \o <<sep>> \o join(sep, Tail(toks))

Min(S) == CHOOSE x \in S : \A y \in S : x <= y
Max(S) == CHOOSE x \in S : \A y \in S : x >= y

SeqToSet(q) == {q[j] : j \in 1..Len(q)}

\* toks[:-1]
AllButLast(toks) == SubSeq(toks, 1, Len(toks) - 1)

\* toks[-1]
Last(toks) == toks[Len(toks)]

----------------------------------------------------------------------------
(* _map2defs *)

\* the subdomain key of one label; <<"raise">> when the label starts with
\* neither a digit nor a letter (the source's raise) or is empty
Raise == <<"raise">>

\* slip: the Ballesteros-Weinstein rule applied to every label
new_key_first_dot(key) ==
    IF key = <<>> THEN Raise
    ELSE IF isnumeric(key[1]) \/ isalpha(key[1]) THEN split(key, ".")[1]
    ELSE Raise

new_key(key) ==
    IF key = <<>> THEN Raise
    ELSE IF isnumeric(key[1]) THEN split(key, ".")[1]
    ELSE IF isalpha(key[1]) THEN join(".", AllButLast(split(key, ".")))
    ELSE Raise

\* defs[new_key].append(ii) on a defaultdict kept in insertion order
defs_append(d, k, ii) ==
    IF \E j \in 1..Len(d) : d[j].key = k
    THEN [j \in 1..Len(d) |->
            IF d[j].key = k THEN [key |-> k, val |-> Append(d[j].val, ii)]
            ELSE d[j]]
    ELSE Append(d, [key |-> k, val |-> <<ii>>])

RECURSIVE map2defs_loop(_, _, _)
map2defs_loop(cons_list, ii, d) ==
    IF ii >= Len(cons_list) THEN [raised |-> FALSE, value |-> d]
    ELSE IF cons_list[ii + 1] = None THEN map2defs_loop(cons_list, ii + 1, d)
    ELSE IF new_key(cons_list[ii + 1]) = Raise
    THEN [raised |-> TRUE, value |-> <<>>]
    ELSE map2defs_loop(cons_list, ii + 1,
                       defs_append(d, new_key(cons_list[ii + 1]), ii))

\* _map2defs(cons_list): the dict as the sequence of its items (value), or
\* raised
_map2defs(cons_list) == map2defs_loop(cons_list, 0, <<>>)

----------------------------------------------------------------------------
(* _fill_CGN_gaps / _fill_BW_gaps: one pass of the loop over defs.items()   *)

\* "Identify problem cases"
is_problem_case(val) == Len(val) # Last(val) - val[1] + 1

\* offset = int(consensus_list[val[0]].split(".")[-1])
first_offset(clist, val) == int(Last(split(clist[val[1] + 1], ".")))

\* slip: offset incremented before the suggestion is built
suggestion_incremented_first(key, offset0, val, ii) ==
    key \o <<".">> \o str(offset0 + (ii - val[1]) + 1)

\* suggestions[-1] at residue ii of the walk: '%s.%u' % (key, offset)
suggestion(key, offset0, val, ii) ==
    key \o <<".">> \o str(offset0 + (ii - val[1]))

\* slip: one agreeing label is enough (consensus_kept += ...)
consensus_kept_any(clist, key, val) ==
    \E ii \in val[1]..Last(val) :
        /\ clist[ii + 1] # None
        /\ suggestion(key, first_offset(clist, val), val, ii) = clist[ii + 1]

\* consensus_kept after the walk over val[0]..val[-1]
consensus_kept(clist, key, val) ==
    \A ii \in val[1]..Last(val) :
        clist[ii + 1] # None =>
            suggestion(key, first_offset(clist, val), val, ii) = clist[ii + 1]

\* slip: only the first empty slot of the run is taken as fillable
residue_idxs_first_gap(clist, val) ==
    {ii \in val[1]..Last(val) :
        /\ clist[ii + 1] = None
        /\ \A jj \in val[1]..(ii - 1) : clist[jj + 1] # None}

\* slip: the slot behind the last label of the run is taken as fillable too
residue_idxs_up_to_next(clist, val) ==
    {ii \in val[1]..(Last(val) + 1) : ii < Len(clist) /\ clist[ii + 1] = None}

\* residue_idxs_wo_consensus_labels
residue_idxs_wo_consensus_labels(clist, val) ==
    {ii \in val[1]..Last(val) : clist[ii + 1] = None}

\* the list after the walk of one item of defs (raised when int() fails)
walk_one_key(clist, key, val) ==
    IF ~is_problem_case(val) THEN [raised |-> FALSE, value |-> clist]
    ELSE IF first_offset(clist, val) < 0 THEN [raised |-> TRUE, value |-> clist]
    ELSE IF consensus_kept(clist, key, val)
    THEN [raised |-> FALSE,
          value |-> [j \in 1..Len(clist) |->
            IF (j - 1) \in residue_idxs_wo_consensus_labels(clist, val)
            THEN suggestion(key, first_offset(clist, val), val, j - 1)
            ELSE clist[j]]]
    ELSE [raised |-> FALSE, value |-> clist]

----------------------------------------------------------------------------
(* Bounds and inputs *)

MaxLen == 4

\* consensus labels of both grammars (Ballesteros-Weinstein and CGN)
\* and one label carrying the marker guess_missing_BWs appends ('3.8*')
Labels ==
    { <<"3", ".", "8">>, <<"3", ".", "9">>, <<"3", ".", "1", "0">>,
      <<"3", ".", "1", "1">>,
      <<"G", ".", "H", "5", ".", "1">>, <<"G", ".", "H", "5", ".", "3">>,
      <<"3", ".", "8", "*">> }

ConsensusLists ==
    UNION { [1..n -> Labels \cup {None}] : n \in 1..MaxLen }


----------------------------------------------------------------------------
(* Sequence alignment and its projection to a list of dicts                *)
(* (sequence_utils._my_bioalign, alignment_result_to_list_of_dicts)         *)

\* the gap symbol of an aligned string
GapChar == "-"

\* a missing index in an alignment record
NoIdx == -1

MatchScore == 1
MismatchScore == 0
GapOpenPenalty == 1

\* all global alignments of s and t: sequences of columns <<a, b>>, no column
\* with two gaps
RECURSIVE Alignments(_, _)
Alignments(s, t) ==
    IF s = <<>> /\ t = <<>> THEN {<<>>}
    ELSE (IF s # <<>> /\ t # <<>>
          THEN {<<<<Head(s), Head(t)>>>> \o r : r \in Alignments(Tail(s), Tail(t))}
          ELSE {})
         \cup
         (IF s # <<>>
          THEN {<<<<Head(s), GapChar>>>> \o r : r \in Alignments(Tail(s), t)}
          ELSE {})
         \cup
         (IF t # <<>>
          THEN {<<<<GapChar, Head(t)>>>> \o r : r \in Alignments(s, Tail(t))}
          ELSE {})

\* the score of an alignment: identical letters score, a run of gaps in one
\* of the strings costs its opening
Score(al) ==
    MatchScore * Cardinality({p \in 1..Len(al) : al[p][1] = al[p][2]})
    + MismatchScore * Cardinality({p \in 1..Len(al) :
          al[p][1] # al[p][2] /\ al[p][1] # GapChar /\ al[p][2] # GapChar})
    - GapOpenPenalty * Cardinality({<<p, k>> \in (1..Len(al)) \X {1, 2} :
          al[p][k] = GapChar /\ (p = 1 \/ al[p - 1][k] # GapChar)})

\* the top-scoring alignments; _my_bioalign(seq, seq_consensus)[0] is one of
\* them
BestAlignments(s, t) ==
    LET all == Alignments(s, t)
        best == Max({Score(al) : al \in all})
    IN {al \in all : Score(al) = best}

\* slip: an empty sequence is aligned to gaps
_my_bioalign_gaps_only(s, t) == BestAlignments(s, t)

\* _my_bioalign(seq, seq_consensus): the list of alignments, empty when one
\* of the sequences is empty
_my_bioalign(s, t) == IF s = <<>> \/ t = <<>> THEN {} ELSE BestAlignments(s, t)

\* number of non-gap characters of side k in columns 1..p
Cursor(al, k, p) == Cardinality({q \in 1..p : al[q][k] # GapChar})

\* one record per alignment column; the two cursors advance on non-gap
\* characters only
_alignment_result_to_list_of_dicts(al, seq_0_res_idxs, seq_1_res_idxs) ==
    [p \in 1..Len(al) |->
        [idx_0 |-> IF al[p][1] = GapChar THEN NoIdx
                   ELSE seq_0_res_idxs[Cursor(al, 1, p)],
         AA_0  |-> al[p][1],
         idx_1 |-> IF al[p][2] = GapChar THEN NoIdx
                   ELSE seq_1_res_idxs[Cursor(al, 2, p)],
         AA_1  |-> al[p][2],
         match |-> al[p][1] # GapChar /\ al[p][2] # GapChar
                   /\ al[p][1] = al[p][2]]]

----------------------------------------------------------------------------
(* residue_and_atom_utils: shorten_AA, name_from_AA, int_from_AA_code *)

\* a residue without one-letter code
NoCode == "None"

\* _shorten_AA(residue, keep_index=False, substitute_fail='X')
_shorten_AA(residue) == IF residue.code = NoCode THEN "X" ELSE residue.code

RECURSIVE filter_chars(_, _)
filter_chars(s, alpha) ==
    IF s = <<>> THEN <<>>
    ELSE IF (alpha /\ isalpha(Head(s))) \/ (~alpha /\ isnumeric(Head(s)))
    THEN <<Head(s)>> \o filter_chars(Tail(s), alpha)
    ELSE filter_chars(Tail(s), alpha)

\* the letters of an AA code: 'R131' -> 'R'
_name_from_AA(key) == filter_chars(key, TRUE)

\* the number of an AA code: 'R131' -> 131
_int_from_AA_code(key) == int(filter_chars(key, FALSE))

----------------------------------------------------------------------------
(* _top2consensus_map *)

\* restrict_to_residxs=None
NoneIdxs == <<-1>>

\* lines 890-891
restricted_idxs(tp, restrict) ==
    IF restrict = NoneIdxs THEN [j \in 1..Len(tp) |-> j - 1] ELSE restrict

\* line 892: the sequence of the restricted residues
seq_of(tp, restrict) ==
    [j \in 1..Len(restricted_idxs(tp, restrict)) |->
        _shorten_AA(tp[restricted_idxs(tp, restrict)[j] + 1])]

\* ''.join(list of strings)
RECURSIVE concat(_)
concat(strs) == IF strs = <<>> THEN <<>> ELSE Head(strs) \o concat(Tail(strs))

\* line 894: the sequence of the table, in the order of its keys
seq_consensus_of(cdict) ==
    concat([j \in 1..Len(cdict) |-> _name_from_AA(cdict[j].key)])

\* line 898
ref_seqnums(cdict) == [j \in 1..Len(cdict) |-> _int_from_AA_code(cdict[j].key)]

\* slip: the filter keeps every column that has a residue on both sides
matched_both_present(records) ==
    {p \in 1..Len(records) : records[p].idx_0 # NoIdx /\ records[p].idx_1 # NoIdx}

\* line 902: alignment[alignment["match"] == True], as row numbers
matched(records) == {p \in 1..Len(records) : records[p].match}

\* consensus_dict[k]: <<TRUE, label>>, or <<FALSE, k>> for a KeyError
dict_get(cdict, k) ==
    IF \E j \in 1..Len(cdict) : cdict[j].key = k
    THEN <<TRUE, cdict[CHOOSE j \in 1..Len(cdict) : cdict[j].key = k].label>>
    ELSE <<FALSE, k>>

\* slip: the label is looked up by the residue index instead of the
\* reference sequence number
lookup_key_by_idx(rec) == <<rec.AA_1>> \o str(rec.idx_0)

\* line 905: AA + str(resSeq)
lookup_key(rec) == <<rec.AA_1>> \o str(rec.idx_1)

\* lines 903-905; rows of one alignment never share an input index, the
\* last write to an index is the one of the highest row
assign_labels(records, cdict, n) ==
    LET rows == matched(records) IN
    IF \E p \in rows : ~dict_get(cdict, lookup_key(records[p]))[1]
    THEN [raised |-> TRUE, value |-> <<>>]
    ELSE [raised |-> FALSE,
          value |-> [j \in 1..n |->
             IF \E p \in rows : records[p].idx_0 = j - 1
             THEN dict_get(cdict, lookup_key(records[
                      Max({p \in rows : records[p].idx_0 = j - 1})]))[2]
             ELSE None]]

----------------------------------------------------------------------------
(* Inputs of the mapper *)

MaxRes == 3
MaxSeq == 3

\* one-letter codes of the reference table
Codes == {"A", "R"}

\* codes of the residues of a topology
TopCodes == {"A", "R"}

\* the elements of a set of numbers as an ascending sequence
RECURSIVE SortedSeq(_)
SortedSeq(S) ==
    IF S = {} THEN <<>> ELSE <<Min(S)>> \o SortedSeq(S \ {Min(S)})

\* the label of the table for sequence number n: '3.8', '3.9', '3.10', ...
TableLabel(n) == <<"3", ".">> \o str(7 + n)

\* reference tables: keys code + number with ascending numbers
Tables ==
    UNION { { [j \in 1..Len(SortedSeq(S)) |->
                 [key   |-> <<c[SortedSeq(S)[j]]>> \o str(SortedSeq(S)[j]),
                  label |-> TableLabel(SortedSeq(S)[j])]]
              : c \in [S -> Codes] }
            : S \in SUBSET (1..MaxSeq) }

\* topologies: residue j (0-based) has sequence number j + 1
Topologies ==
    UNION { { [j \in 1..n |-> [code |-> c[j], resSeq |-> j]] : c \in [1..n -> TopCodes] }
            : n \in 1..MaxRes }

Restrictions(n) ==
    {NoneIdxs} \cup {SortedSeq(S) : S \in (SUBSET (0..(n - 1))) \ {{}}}


----------------------------------------------------------------------------
(* list_utils: in_what_fragment, rangeexpand; pandas.unique *)

\* in_what_fragment's None
NoFrag == -1

\* the index of the fragment that contains residx, or None
_in_what_fragment(residx, frags) ==
    IF \E j \in 1..Len(frags) : residx \in SeqToSet(frags[j])
    THEN Min({j \in 1..Len(frags) : residx \in SeqToSet(frags[j])}) - 1
    ELSE NoFrag

\* pandas.unique: the distinct values in order of first appearance
RECURSIVE _pandas_unique(_)
_pandas_unique(q) ==
    IF q = <<>> THEN <<>>
    ELSE LET front == _pandas_unique(AllButLast(q)) IN
         IF Last(q) \in SeqToSet(front) THEN front ELSE Append(front, Last(q))

\* one part of a range expression: 'a-b' is a..b, 'a' is a; <<-1>> when a
\* number does not parse
rangeexpand_part(r) ==
    LET ends == split(r, "-") IN
    IF Len(ends) = 1
    THEN (IF int(ends[1]) < 0 THEN <<-1>> ELSE <<int(ends[1])>>)
    ELSE IF Len(ends) = 2 /\ int(ends[1]) >= 0 /\ int(ends[2]) >= 0
    THEN [j \in 1..(int(ends[2]) - int(ends[1]) + 1) |-> int(ends[1]) + j - 1]
    ELSE <<-1>>

\* rangeexpand('0-1') = [0, 1], rangeexpand('0,2') = [0, 2]; raised when a
\* part is not a number or a range of numbers
_rangeexpand(txt) ==
    LET parts == split(txt, ",")
        lists == [j \in 1..Len(parts) |-> rangeexpand_part(parts[j])]
    IN IF \E j \in 1..Len(parts) : lists[j] = <<-1>>
       THEN [raised |-> TRUE, value |-> <<>>]
       ELSE [raised |-> FALSE, value |-> concat(lists)]

----------------------------------------------------------------------------
(* _check_if_subfragment and the inline check of LabelerConsensus.top2defs *)

\* fragments.py line 550 / nomenclature_utils.py line 648
ifrags_of(sf, frags) == [j \in 1..Len(sf) |-> _in_what_fragment(sf[j], frags)]

\* line 552 / 650: the candidates, None left out
frag_cands_of(ifr) ==
    LET u == _pandas_unique(ifr) IN
    [j \in 1..Cardinality(SeqToSet(u) \ {NoFrag}) |->
        u[Min({k \in 1..Len(u) :
                  Cardinality(SeqToSet(SubSeq(u, 1, k)) \ {NoFrag}) = j})]]

\* slip: keep_all not consulted
is_clash_ignoring_keep_all(cands, inline, keepall) == Len(cands) > 1

\* slip: two candidate fragments are not yet a clash
is_clash_above_two(cands, inline, keepall) ==
    IF inline THEN Len(cands) > 2 ELSE Len(cands) > 2 /\ ~keepall

\* line 553 (_check_if_subfragment) / line 651 (top2defs, which has no keep_all)
is_clash(cands, inline, keepall) ==
    IF inline THEN Len(cands) > 1 ELSE Len(cands) > 1 /\ ~keepall

\* slip: the assertion left out
selection_is_valid_unchecked(sel, ifr) == TRUE

\* line 568 / 665: assert all([idx in ifrags for idx in answr])
selection_is_valid(sel, ifr) ==
    \A j \in 1..Len(sel) : sel[j] \in SeqToSet(ifr)

\* the elements of q at the positions of P, in order
RECURSIVE select_positions(_, _)
select_positions(q, P) ==
    IF q = <<>> THEN <<>>
    ELSE select_positions(AllButLast(q), P)
         \o (IF Len(q) \in P THEN <<Last(q)>> ELSE <<>>)

\* slip: the residues whose fragment is not in the answer are kept
tokeep_of_unselected(sf, ifr, sel) ==
    select_positions(sf, {j \in 1..Len(sf) : ifr[j] \notin SeqToSet(sel)})

\* line 569 / 666: the residues whose fragment is in the answer
tokeep_of(sf, ifr, sel) ==
    select_positions(sf, {j \in 1..Len(sf) : ifr[j] \in SeqToSet(sel)})

\* line 570 / 667: len(tokeep) >= len(ifrags)
is_noop(keep, ifr) == Len(keep) >= Len(ifr)

\* lines 567-572 / 664-669 for the text typed: raised, or the list returned
answer_result(txt, sf, ifr) ==
    LET sel == _rangeexpand(txt) IN
    IF sel.raised THEN [raised |-> TRUE, value |-> <<>>]
    ELSE IF ~selection_is_valid(sel.value, ifr)
    THEN [raised |-> TRUE, value |-> <<>>]
    ELSE IF tokeep_of(sf, ifr, sel.value) = <<>>
    THEN [raised |-> TRUE, value |-> <<>>]
    ELSE IF is_noop(tokeep_of(sf, ifr, sel.value), ifr)
    THEN [raised |-> TRUE, value |-> <<>>]
    ELSE [raised |-> FALSE, value |-> tokeep_of(sf, ifr, sel.value)]

----------------------------------------------------------------------------
(* Inputs of the reconciliation *)

NumResidues == 5
MaxFrags == 3

\* a..b as a list
interval(a, b) == [j \in 1..(b - a + 1) |-> a + j - 1]

\* lists of at most MaxFrags disjoint fragments in ascending order, which
\* need not cover every residue
RECURSIVE FragmentListsFrom(_, _)
FragmentListsFrom(lo, k) ==
    {<<>>} \cup
    (IF k = 0 THEN {}
     ELSE UNION { { <<interval(a, b)>> \o rest
                      : rest \in FragmentListsFrom(b + 1, k - 1) }
                  : <<a, b>> \in {r \in (lo..(NumResidues - 1)) \X (lo..(NumResidues - 1))
                                     : r[1] <= r[2]} })

FragmentLists == FragmentListsFrom(0, MaxFrags)

\* definitions: non-empty ascending lists of residue indices
Definitions ==
    {SortedSeq(S) : S \in (SUBSET (0..(NumResidues - 1))) \ {{}}}

\* texts typed at the prompt
Answers ==
    { <<"0">>, <<"1">>, <<"2">>, <<"3">>,
      <<"0", "-", "1">>, <<"1", "-", "2">>, <<"0", "-", "2">>,
      <<"0", ",", "2">>, <<>>, <<"a">> }

----------------------------------------------------------------------------
(* per_residue_fragment_picker *)

\* fragments.py line 29
abc == <<"a", "b", "c", "d", "e", "f", "g", "h", "i", "j",
         "k", "l", "m", "n", "o", "p", "q", "r", "s", "t">>

\* pick_this_fragment_by_default=None
NoDefault == -1

\* residxs.append(None), fragidxs.append(None)
NoResidue == -1

\* str.isdigit()
isdigit(txt) == txt # <<>> /\ \A j \in 1..Len(txt) : isnumeric(txt[j])

\* str.isalpha() of a string
isalpha_str(txt) == txt # <<>> /\ \A j \in 1..Len(txt) : isalpha(txt[j])

\* the start positions (0-based) of the occurrences of txt in whole
occurrences(txt, whole) ==
    {k \in 0..(Len(whole) - Len(txt)) :
        SubSeq(whole, k + 1, k + Len(txt)) = txt}

\* txt in whole, for two strings
is_substring(txt, whole) == occurrences(txt, whole) # {}

\* whole.find(txt), when txt in whole
find(txt, whole) == Min(occurrences(txt, whole))

\* a residue matches a descriptor 'A1' (code and sequence number) or '1'
\* (sequence number)
descriptor_matches(residue, key) ==
    /\ _int_from_AA_code(key) = residue.resSeq
    /\ \/ _name_from_AA(key) = <<>>
       \/ _name_from_AA(key) = <<_shorten_AA(residue)>>

\* find_AA(top, key): the indices of the matching residues, ascending
_find_AA(tp, key) ==
    SortedSeq({ii \in 0..(Len(tp) - 1) : descriptor_matches(tp[ii + 1], key)})

\* in_what_N_fragments(cands, fragments): the fragment of each candidate
_in_what_N_fragments(cands, frags) ==
    [j \in 1..Len(cands) |-> _in_what_fragment(cands[j], frags)]

\* slip: the first branch is never taken
is_not_found_never(cands) == FALSE

\* line 446
is_not_found(cands) == Len(cands) = 0

\* slip: the first candidate whatever the answer
index_first(cands, cand_fragments, answer) ==
    [scalar |-> TRUE, value |-> cands[1]]

\* lines 481, 485: cands[_np.argwhere([answer == ii for ii in
\* cand_fragments]).squeeze()] is one residue index when exactly one
\* candidate lies in fragment answer, and no integer otherwise
index_by_argwhere(cands, cand_fragments, answer) ==
    LET hits == {j \in 1..Len(cands) : cand_fragments[j] = answer} IN
    IF Cardinality(hits) = 1
    THEN [scalar |-> TRUE, value |-> cands[CHOOSE j \in hits : TRUE]]
    ELSE [scalar |-> FALSE, value |-> NoResidue]

\* lines 469-477: the text of the answer
answer_text(default, typed) ==
    IF default = NoDefault THEN typed ELSE str(default)

\* slip: the first candidate is appended whatever was picked
check_and_append_first(picked, answer, cands, cand_fragments) ==
    IF answer \notin SeqToSet(cand_fragments) \/ ~picked.scalar
    THEN [raised |-> TRUE, residx |-> NoResidue, fragidx |-> NoFrag]
    ELSE [raised |-> FALSE, residx |-> cands[1], fragidx |-> answer]

\* slip: neither the assertion nor int() refuses anything
check_and_append_unchecked(picked, answer, cands, cand_fragments) ==
    [raised |-> FALSE,
     residx |-> IF picked.scalar THEN picked.value ELSE cands[1],
     fragidx |-> answer]

\* lines 494-499: the assertion, then int(cands) and int(answer)
check_and_append(picked, answer, cands, cand_fragments) ==
    IF answer \notin SeqToSet(cand_fragments)
    THEN [raised |-> TRUE, residx |-> NoResidue, fragidx |-> NoFrag]
    ELSE IF ~picked.scalar
    THEN [raised |-> TRUE, residx |-> NoResidue, fragidx |-> NoFrag]
    ELSE [raised |-> FALSE, residx |-> picked.value, fragidx |-> answer]

\* slip: the empty answer always means the first fragment
answer_if_empty_zero(last) == 0

\* line 480: answer = last_answer
answer_if_empty(last) == last

\* lines 479-499 for one ambiguous descriptor
pick_ambiguous(cands, cand_fragments, answer, last) ==
    IF Len(answer) = 0
    THEN check_and_append(
             index_by_argwhere(cands, cand_fragments, answer_if_empty(last)),
             answer_if_empty(last), cands, cand_fragments)
    ELSE IF isdigit(answer)
    THEN (IF int(answer) \in SeqToSet(cand_fragments)
          THEN check_and_append(
                   index_by_argwhere(cands, cand_fragments, int(answer)),
                   int(answer), cands, cand_fragments)
          ELSE check_and_append([scalar |-> FALSE, value |-> NoResidue],
                                int(answer), cands, cand_fragments))
    ELSE IF isalpha_str(answer) /\ is_substring(answer, abc)
    THEN (IF find(answer, abc) >= Len(cand_fragments)
          THEN [raised |-> TRUE, residx |-> NoResidue, fragidx |-> NoFrag]
          ELSE check_and_append(
                   [scalar |-> TRUE, value |-> cands[find(answer, abc) + 1]],
                   cand_fragments[find(answer, abc) + 1],
                   cands, cand_fragments))
    ELSE [raised |-> TRUE, residx |-> NoResidue, fragidx |-> NoFrag]

----------------------------------------------------------------------------
(* Inputs of the picker *)

MaxPickRes == 3

\* the residues of a topology with repeated residues (a homodimer): A1, R1, A2
PickResidues ==
    { [code |-> "A", resSeq |-> 1], [code |-> "R", resSeq |-> 1],
      [code |-> "A", resSeq |-> 2] }

PickTopologies == UNION { [1..n -> PickResidues] : n \in 1..MaxPickRes }

\* the partitions of 0..n-1 into consecutive fragments
RECURSIVE PartitionsFrom(_, _)
PartitionsFrom(lo, n) ==
    IF lo >= n THEN {<<>>}
    ELSE UNION { { <<interval(lo, b)>> \o rest : rest \in PartitionsFrom(b + 1, n) }
                 : b \in lo..(n - 1) }

Descriptors == { <<"A", "1">>, <<"1">>, <<"R", "2">> }

\* one descriptor, or a list of two
DescriptorLists ==
    { <<d>> : d \in Descriptors } \cup { <<d, e>> : d, e \in Descriptors }

PickDefaults == {NoDefault} \cup (0..(MaxPickRes - 1))

\* texts typed at the prompt of the picker
PickAnswers ==
    { <<>>, <<"0">>, <<"1">>, <<"2">>, <<"a">>, <<"b">>, <<"c">>,
      <<"a", "b">>, <<"u">>, <<"-">> }

----------------------------------------------------------------------------
(* LabelerConsensus: construction, conlab2residx, top2map, top2defs *)

\* line 383: {val: key for key, val in self.AA2conlab.items()}; a label keeps
\* the place of its first key and the value of its last
conlab2AA_of(cdict) ==
    LET u == _pandas_unique([j \in 1..Len(cdict) |-> cdict[j].label]) IN
    [j \in 1..Len(u) |->
        [key |-> u[j],
         label |-> cdict[Max({k \in 1..Len(cdict) : cdict[k].label = u[j]})].key]]

\* lines 715-724 (LabelerCGN): the residues grouped under the text before the
\* last dot of their label
fragments_of(cdict) ==
    LET prefix(j) == join(".", AllButLast(split(cdict[j].label, ".")))
        u == _pandas_unique([j \in 1..Len(cdict) |-> prefix(j)]) IN
    [f \in 1..Len(u) |->
        [key |-> u[f],
         val |-> select_positions([j \in 1..Len(cdict) |-> cdict[j].key],
                                  {j \in 1..Len(cdict) : prefix(j) = u[f]})]]

\* lines 383-387 after lines 711-724: the attributes of a constructed labeler
LabelerCGN(cdict) ==
    [AA2conlab |-> cdict,
     conlab2AA |-> conlab2AA_of(cdict),
     fragments |-> fragments_of(cdict),
     fragment_names |->
        [f \in 1..Len(fragments_of(cdict)) |-> fragments_of(cdict)[f].key],
     fragments_as_conlabs |->
        [f \in 1..Len(fragments_of(cdict)) |->
            [key |-> fragments_of(cdict)[f].key,
             val |-> [a \in 1..Len(fragments_of(cdict)[f].val) |->
                         dict_get(cdict, fragments_of(cdict)[f].val[a])[2]]]]]

\* lines 938-978 as one call: the walk over every item of defs
RECURSIVE fill_loop(_, _, _)
fill_loop(clist, d, k) ==
    IF k > Len(d) THEN [raised |-> FALSE, value |-> clist]
    ELSE LET after == walk_one_key(clist, d[k].key, d[k].val) IN
         IF after.raised THEN [raised |-> TRUE, value |-> <<>>]
         ELSE fill_loop(after.value, d, k + 1)

\* _fill_CGN_gaps(consensus_list, top)
_fill_CGN_gaps(clist) ==
    IF _map2defs(clist).raised THEN [raised |-> TRUE, value |-> <<>>]
    ELSE fill_loop(clist, _map2defs(clist).value, 1)

\* _top2consensus_map(consensus_dict, top, restrict_to_residxs,
\* keep_consensus) as one call: its possible outcomes, one per alignment the
\* aligner may put first
_top2consensus_map(cdict, tp, restrict, keep) ==
    IF _my_bioalign(seq_of(tp, restrict), seq_consensus_of(cdict)) = {}
    THEN {[raised |-> TRUE, value |-> <<>>]}
    ELSE { LET res == assign_labels(
                          _alignment_result_to_list_of_dicts(
                              al, restricted_idxs(tp, restrict), ref_seqnums(cdict)),
                          cdict, Len(tp)) IN
             IF res.raised \/ ~keep THEN res ELSE _fill_CGN_gaps(res.value)
           : al \in _my_bioalign(seq_of(tp, restrict), seq_consensus_of(cdict)) }

\* slip: a repeated label is not noticed
is_duplicate_never(out_dict, imap) == FALSE

\* line 512: imap in out_dict.keys()
is_duplicate(out_dict, imap) == \E j \in 1..Len(out_dict) : out_dict[j].key = imap

\* lines 510-523: the loop of conlab2residx over the map; out_dict[imap] = ii
\* is the item [key |-> imap, label |-> ii]
RECURSIVE conlab2residx_loop(_, _, _)
conlab2residx_loop(map, ii, out_dict) ==
    IF ii >= Len(map) THEN [raised |-> FALSE, value |-> out_dict]
    ELSE IF map[ii + 1] = None THEN conlab2residx_loop(map, ii + 1, out_dict)
    ELSE IF is_duplicate(out_dict, map[ii + 1])
    THEN [raised |-> TRUE, value |-> <<>>]
    ELSE conlab2residx_loop(map, ii + 1,
                            Append(out_dict, [key |-> map[ii + 1], label |-> ii]))

conlab2residx(map) == conlab2residx_loop(map, 0, <<>>)

\* lines 633-640 and 671-678 of top2defs (fragments=None, return_defs=True):
\* per fragment the residues of its labels that are in the map; a fragment
\* with no residue gets no key
top2defs(lab, map) ==
    IF conlab2residx(map).raised THEN [raised |-> TRUE, value |-> <<>>]
    ELSE LET c2r == conlab2residx(map).value
             fac == lab.fragments_as_conlabs
             present(f) == select_positions(fac[f].val,
                               {a \in 1..Len(fac[f].val) : dict_get(c2r, fac[f].val[a])[1]})
             all == [f \in 1..Len(fac) |->
                       [key |-> fac[f].key,
                        val |-> [a \in 1..Len(present(f)) |->
                                    dict_get(c2r, present(f)[a])[2]]]]
         IN [raised |-> FALSE,
             value |-> select_positions(all, {f \in 1..Len(fac) : all[f].val # <<>>})]

\* slip: the method keeps the map it computed in place of the table
self_after_call_caching(lab, res) == [lab EXCEPT !.AA2conlab = res.map]

\* lines 456-678: no method assigns to an attribute of self or to an entry
\* of one of its dictionaries
self_after_call(lab, res) == lab

\* map=None
NoMap == <<<<"no map">>>>

----------------------------------------------------------------------------
(* Inputs of the labeler *)

MaxLabSeq == 2

\* labels of a table that may repeat a label
LabLabels == { <<"3", ".", "8">>, <<"G", ".", "H", "5", ".", "1">> }

\* tables of residues A1, A2, ... with any of the labels
LabTables ==
    UNION { { [j \in 1..Len(SortedSeq(S)) |->
                 [key   |-> <<"A">> \o str(SortedSeq(S)[j]),
                  label |-> l[SortedSeq(S)[j]]]]
              : l \in [S -> LabLabels] }
            : S \in SUBSET (1..MaxLabSeq) }

\* the topologies one labeler is used with: A, AA, AR
LabTopologies == {tp \in Topologies : Len(tp) <= 2 /\ tp[1].code = "A"}

\* maps passed by the caller, for a topology of n residues: without a label,
\* or with '3.8' at the first residue
LabMaps(n) ==
    {m \in [1..n -> LabLabels \cup {None}] :
        m[1] = <<"3", ".", "8">> \/ \A j \in 1..n : m[j] = None}

----------------------------------------------------------------------------
(* get_fragments *)

\* the lists a..b-1 between consecutive elements of starts, up to n
runs(n, starts) ==
    LET st == SortedSeq(starts) IN
    [j \in 1..Len(st) |->
        interval(st[j], (IF j < Len(st) THEN st[j + 1] ELSE n) - 1)]

\* lines 147-158: a new fragment where |resSeq - old| > 1
fragments_resSeq(tp) ==
    runs(Len(tp),
         {0} \cup {ii \in 1..(Len(tp) - 1) :
                      LET delta == tp[ii + 1].resSeq - tp[ii].resSeq IN
                      (IF delta < 0 THEN -delta ELSE delta) > 1})

\* lines 268-275: the groups of consecutive fragments with rising resSeq at
\* their boundaries
to_join_of(tp, frs) ==
    runs(Len(frs),
         {0} \cup {k \in 1..(Len(frs) - 1) :
                      ~(tp[Last(frs[k]) + 1].resSeq < tp[frs[k + 1][1] + 1].resSeq)})

\* join_lists(lists, idxs_of_lists_to_join): the lists of each group become
\* one list at the place of the group's first list
_join_lists(lists, groups) ==
    LET in_group(ii) == {g \in 1..Len(groups) : ii \in SeqToSet(groups[g])} IN
    concat([j \in 1..Len(lists) |->
        IF in_group(j - 1) = {} THEN <<lists[j]>>
        ELSE LET grp == groups[CHOOSE g \in in_group(j - 1) : TRUE] IN
             IF grp[1] = j - 1
             THEN <<concat([m \in 1..Len(grp) |-> lists[grp[m] + 1]])>>
             ELSE <<>>])

\* line 277
_get_fragments_resSeq_plus(tp, frs) ==
    _join_lists(frs, select_positions(to_join_of(tp, frs),
                        {g \in 1..Len(to_join_of(tp, frs)) :
                            Len(to_join_of(tp, frs)[g]) > 1}))

\* lines 177-184: every residue that is no amino acid and has company in its
\* fragment is taken out of it and appended as a fragment of its own
RECURSIVE lig_loop(_, _, _)
lig_loop(tp, frags, ii) ==
    IF ii >= Len(tp) THEN frags
    ELSE IF tp[ii + 1].code # NoCode THEN lig_loop(tp, frags, ii + 1)
    ELSE LET frag_idx == _in_what_fragment(ii, frags) IN
         IF Len(frags[frag_idx + 1]) > 1
         THEN lig_loop(tp,
                  Append([frags EXCEPT ![frag_idx + 1] =
                             select_positions(@, {a \in 1..Len(@) : @[a] # ii})],
                         <<ii>>),
                  ii + 1)
         ELSE lig_loop(tp, frags, ii + 1)

\* line 218: the fragments in the order of their first residue
sort_by_first(frags) ==
    LET firsts == SortedSeq({frags[j][1] : j \in 1..Len(frags)}) IN
    [k \in 1..Len(firsts) |->
        frags[CHOOSE j \in 1..Len(frags) : frags[j][1] = firsts[k]]]

\* slip: the breaker itself is left out of the second part
subfrags_without_breaker(frag, idx_split) ==
    <<SubSeq(frag, 1, idx_split), SubSeq(frag, idx_split + 2, Len(frag))>>

\* line 250: [fragments[ifrag][:idx_split], fragments[ifrag][idx_split:]]
subfrags(frag, idx_split) ==
    <<SubSeq(frag, 1, idx_split), SubSeq(frag, idx_split + 1, Len(frag))>>

\* lines 248-258: the fragment of the breaker is split in front of it
break_at(frags, idx, ifrag) ==
    LET frag == frags[ifrag + 1]
        idx_split == (CHOOSE a \in 1..Len(frag) : frag[a] = idx) - 1 IN
    IF idx_split > 0
    THEN SubSeq(frags, 1, ifrag) \o subfrags(frag, idx_split)
         \o SubSeq(frags, ifrag + 2, Len(frags))
    ELSE frags

\* per_residue_fragment_picker for one descriptor (lines 442-501)
pick_one(tp, frags, key, default, typed) ==
    LET cands == _find_AA(tp, key)
        cand_fragments == _in_what_N_fragments(cands, frags) IN
    IF is_not_found(cands)
    THEN [raised |-> FALSE, residx |-> NoResidue, fragidx |-> NoFrag]
    ELSE IF Len(cands) = 1
    THEN [raised |-> FALSE, residx |-> cands[1], fragidx |-> cand_fragments[1]]
    ELSE pick_ambiguous(cands, cand_fragments, answer_text(default, typed), 0)

\* fragment_breaker_fullresname=None
NoBreaker == <<>>

\* lines 144-263 of get_fragments (join_fragments=None, atoms=False)
get_fragments(tp, method, breaker, default, typed) ==
    LET frs == fragments_resSeq(tp)
        fragments0 ==
            IF method = "resSeq" THEN frs
            ELSE IF method = "resSeq+" THEN _get_fragments_resSeq_plus(tp, frs)
            ELSE IF method = "lig_resSeq+"
            THEN lig_loop(tp, _get_fragments_resSeq_plus(tp, frs), 0)
            ELSE <<interval(0, Len(tp) - 1)>>
        sorted == sort_by_first(fragments0)
        picked == pick_one(tp, sorted, breaker, default, typed)
    IN IF breaker = NoBreaker THEN [raised |-> FALSE, value |-> sorted]
       ELSE IF picked.raised THEN [raised |-> TRUE, value |-> <<>>]
       ELSE IF picked.residx = NoResidue THEN [raised |-> FALSE, value |-> sorted]
       ELSE [raised |-> FALSE,
             value |-> break_at(sorted, picked.residx, picked.fragidx)]

----------------------------------------------------------------------------
(* Inputs of get_fragments *)

MaxFragRes == 3

\* amino acids and ligands, with sequence numbers that repeat, jump and fall
FragTopologies ==
    UNION { [1..n -> [code : {"A", NoCode}, resSeq : {1, 2, 4}]]
            : n \in 1..MaxFragRes }

Methods == {"resSeq", "resSeq+", "lig_resSeq+", "None"}

Breakers == {NoBreaker, <<"A", "2">>, <<"1">>}

GfCalls ==
    [top : FragTopologies, method : Methods, breaker : Breakers,
     default : {NoDefault, 1}]

----------------------------------------------------------------------------
(* order_frags, order_BW *)

\* s.startswith(prefix)
startswith(s, prefix) ==
    Len(prefix) <= Len(s) /\ SubSeq(s, 1, Len(prefix)) = prefix

\* s.endswith(suffix)
endswith(s, suffix) ==
    Len(suffix) <= Len(s) /\ SubSeq(s, Len(s) - Len(suffix) + 1, Len(s)) = suffix

\* the key natsort gives a label made of numbers and dots: its numbers
nat_key(lab) ==
    [j \in 1..Len(split(lab, ".")) |-> int(split(lab, ".")[j])]

\* the order of two keys, number by number
RECURSIVE key_less(_, _)
key_less(a, b) ==
    IF b = <<>> THEN FALSE
    ELSE IF a = <<>> THEN TRUE
    ELSE IF a[1] # b[1] THEN a[1] < b[1]
    ELSE key_less(Tail(a), Tail(b))

\* natsorted(list): the natural order, equal keys in the order of the list
RECURSIVE natsorted(_)
natsorted(q) ==
    IF q = <<>> THEN <<>>
    ELSE LET rest == natsorted(AllButLast(q))
             nbefore == Cardinality({j \in 1..Len(rest) :
                            ~key_less(nat_key(Last(q)), nat_key(rest[j]))})
         IN SubSeq(rest, 1, nbefore) \o <<Last(q)>>
            \o SubSeq(rest, nbefore + 1, Len(rest))

\* lines 1387-1390: the labels that belong to the fragment name
toappend(ifrag, labels) ==
    natsorted(select_positions(labels,
        {j \in 1..Len(labels) :
            IF is_substring(<<"C", "L">>, ifrag)
            THEN endswith(labels[j], ifrag)
            ELSE startswith(labels[j], ifrag)}))

\* lines 1393-1395: the labels not yet in labs_out are appended
RECURSIVE append_missing(_, _)
append_missing(out, labels) ==
    IF labels = <<>> THEN out
    ELSE append_missing(
             IF Head(labels) \in SeqToSet(out) THEN out
             ELSE Append(out, Head(labels)),
             Tail(labels))

\* line 1399: "1 12 2 23 3 34 ICL2 4 45 5 56 ICL3 6 67 7 78 8".split()
BW_fragment_names ==
    << <<"1">>, <<"1", "2">>, <<"2">>, <<"2", "3">>, <<"3">>, <<"3", "4">>,
       <<"I", "C", "L", "2">>, <<"4">>, <<"4", "5">>, <<"5">>, <<"5", "6">>,
       <<"I", "C", "L", "3">>, <<"6">>, <<"6", "7">>, <<"7">>, <<"7", "8">>,
       <<"8">> >>

----------------------------------------------------------------------------
(* Inputs of order_BW *)

MaxOrd == 3

\* Ballesteros-Weinstein labels of the helices 1, 2 and 8, of the loop 12,
\* and one label that belongs to no fragment name
OrdLabels ==
    { <<"1", ".", "5", "0">>, <<"1", ".", "9">>, <<"1", "2", ".", "4", "8">>,
      <<"2", ".", "4", "0">>, <<"8", ".", "5", "0">>, <<"9", ".", "1">> }

\* lists of distinct labels
OrdLabelLists ==
    UNION { {q \in [1..n -> OrdLabels] : \A j, k \in 1..n : j # k => q[j] # q[k]}
            : n \in 1..MaxOrd }

----------------------------------------------------------------------------
(* guess_missing_BWs *)

\* a local variable that has not been assigned
Unbound == <<"unbound">>

\* '%u' % n
fmt_u(n) == IF n < 0 THEN <<"-">> \o str(-n) ELSE str(n)

\* line 787: '%s%s' % (residue.code, residue.resSeq)
residue_key(residue) == <<residue.code>> \o str(residue.resSeq)

\* line 795: the keys of the table with a number above resSeq, in dict order
keys_above(d, resSeq) ==
    select_positions([j \in 1..Len(d) |-> d[j].key],
                     {j \in 1..Len(d) : _int_from_AA_code(d[j].key) > resSeq})

\* line 801: the keys of the table with a number below resSeq, in dict order
keys_below(d, resSeq) ==
    select_positions([j \in 1..Len(d) |-> d[j].key],
                     {j \in 1..Len(d) : _int_from_AA_code(d[j].key) < resSeq})

abs(n) == IF n < 0 THEN -n ELSE n

\* lines 818-820: base, exp = [int(ii) for ii in closest_BW.split('.')] and
\* '%s.%u*' % (base, exp + delta)
new_guessed_val(closest_BW, delta) ==
    LET toks == split(closest_BW, ".") IN
    IF Len(toks) # 2 \/ int(toks[1]) < 0 \/ int(toks[2]) < 0
    THEN [raised |-> TRUE, value |-> None]
    ELSE [raised |-> FALSE,
          value |-> str(int(toks[1])) \o <<".">>
                    \o fmt_u(int(toks[2]) + delta) \o <<"*">>]

\* lines 786-822 for one residue: the entry of out_list and the locals
\* key_above and key_below after it
guess_one(d, residue, above, below) ==
    LET key == residue_key(residue) IN
    IF dict_get(d, key)[1]
    THEN [raised |-> FALSE, value |-> dict_get(d, key)[2],
          above |-> above, below |-> below]
    ELSE LET resSeq == _int_from_AA_code(key)
             ka == keys_above(d, resSeq)
             kb == keys_below(d, resSeq)
             above1 == IF ka = <<>> THEN above ELSE ka[1]
             below1 == IF kb = <<>> THEN below ELSE Last(kb)
             delta_above == IF ka = <<>> THEN 0
                            ELSE abs(resSeq - _int_from_AA_code(above1))
             delta_below == IF kb = <<>> THEN 0
                            ELSE abs(resSeq - _int_from_AA_code(below1))
             closest_BW_key == IF delta_above <= delta_below THEN above1 ELSE below1
             delta == IF delta_above <= delta_below THEN -delta_above
                      ELSE delta_below
         IN IF closest_BW_key = Unbound
            THEN [raised |-> TRUE, value |-> None,
                  above |-> above1, below |-> below1]
            ELSE LET val == new_guessed_val(dict_get(d, closest_BW_key)[2], delta) IN
                 [raised |-> val.raised, value |-> val.value,
                  above |-> above1, below |-> below1]

----------------------------------------------------------------------------
(* The gap filler as a process: call, one step per item of defs, return *)

\* line 938: defs = _map2defs(consensus_list)
FillStart ==
    /\ fill_pc = "called"
    /\ LET d == _map2defs(consensus_list) IN
         IF d.raised
         THEN /\ fill_pc' = "raised"
              /\ UNCHANGED <<defs, key_i>>
         ELSE /\ defs' = d.value
              /\ key_i' = 0
              /\ fill_pc' = "loop"
    /\ UNCHANGED <<consensus_list, fill_in, fill_ret>>

\* lines 940-977: the body of the loop for the next item of defs
FillKey ==
    /\ fill_pc = "loop"
    /\ key_i < Len(defs)
    /\ LET item == defs[key_i + 1]
           after == walk_one_key(consensus_list, item.key, item.val) IN
         IF after.raised
         THEN /\ fill_pc' = "raised"
              /\ UNCHANGED <<consensus_list, key_i>>
         ELSE /\ consensus_list' = after.value
              /\ key_i' = key_i + 1
              /\ UNCHANGED fill_pc
    /\ UNCHANGED <<fill_in, defs, fill_ret>>

\* line 978: return consensus_list
FillReturn ==
    /\ fill_pc = "loop"
    /\ key_i = Len(defs)
    /\ fill_ret' = consensus_list
    /\ fill_pc' = "done"
    /\ UNCHANGED <<consensus_list, fill_in, defs, key_i>>

MapIdle ==
    /\ top = <<>>
    /\ consensus_dict = <<>>
    /\ restrict_to_residxs = NoneIdxs
    /\ keep_consensus = FALSE
    /\ alignment = <<>>
    /\ out_list = <<>>
    /\ map_ret = <<>>
    /\ map_pc = "idle"

RecIdle ==
    /\ sub_frag = <<>>
    /\ fragments = <<>>
    /\ keep_all = FALSE
    /\ rec_inline = FALSE
    /\ ifrags = <<>>
    /\ frag_cands = <<>>
    /\ answr = <<>>
    /\ n_inputs = 0
    /\ rec_ret = <<>>
    /\ rec_pc = "idle"

PickIdle ==
    /\ pk_top = <<>>
    /\ pk_fragments = <<>>
    /\ residue_descriptors = <<>>
    /\ pick_this_fragment_by_default = NoDefault
    /\ residxs = <<>>
    /\ fragidxs = <<>>
    /\ last_answer = 0
    /\ pk_typed = <<>>
    /\ pk_pc = "idle"

LabIdle ==
    /\ lab_table = <<>>
    /\ labeler = LabelerCGN(<<>>)
    /\ lab_call = [method |-> "none", top |-> <<>>, map |-> NoMap,
                   fill_gaps |-> FALSE]
    /\ lab_result = [raised |-> FALSE, value |-> <<>>, map |-> <<>>]
    /\ lab_prev_top = <<>>

GfIdle ==
    /\ gf_call = [top |-> <<>>, method |-> "None", breaker |-> NoBreaker,
                  default |-> NoDefault]
    /\ gf_typed = <<>>
    /\ gf_ret = <<>>
    /\ gf_pc = "idle"

OrdIdle ==
    /\ consensus_labels = <<>>
    /\ labs_out = <<>>
    /\ ord_i = 0
    /\ ord_pc = "idle"

GmIdle ==
    /\ input_BW_dict = <<>>
    /\ gm_top = <<>>
    /\ gm_restrict = NoneIdxs
    /\ gm_out = <<>>
    /\ gm_i = 0
    /\ key_above = Unbound
    /\ key_below = Unbound
    /\ gm_ret = <<>>
    /\ gm_pc = "idle"

RestIdle == PickIdle /\ LabIdle /\ GfIdle /\ OrdIdle /\ GmIdle

FillIdle ==
    /\ consensus_list = <<>>
    /\ fill_in = <<>>
    /\ defs = <<>>
    /\ key_i = 0
    /\ fill_ret = <<>>
    /\ fill_pc = "idle"

----------------------------------------------------------------------------
(* _top2consensus_map as a process *)

\* lines 890-901: the sequences, their alignment, its list of dicts; [0] of
\* an empty list of alignments raises
MapAlign ==
    /\ map_pc = "called"
    /\ LET seq == seq_of(top, restrict_to_residxs)
           seq_consensus == seq_consensus_of(consensus_dict) IN
         IF _my_bioalign(seq, seq_consensus) = {}
         THEN /\ map_pc' = "raised"
              /\ UNCHANGED alignment
         ELSE /\ \E al \in _my_bioalign(seq, seq_consensus) :
                    alignment' = _alignment_result_to_list_of_dicts(
                                     al,
                                     restricted_idxs(top, restrict_to_residxs),
                                     ref_seqnums(consensus_dict))
              /\ map_pc' = "aligned"
    /\ UNCHANGED <<top, consensus_dict, restrict_to_residxs, keep_consensus,
                   out_list, map_ret>>
    /\ UNCHANGED <<fillVars, recVars, restVars>>

\* lines 902-908: the labels of the matched rows; the call of the gap filler
\* on out_list when keep_consensus is set
MapAssign ==
    /\ map_pc = "aligned"
    /\ LET res == assign_labels(alignment, consensus_dict, Len(top)) IN
         IF res.raised
         THEN /\ map_pc' = "raised"
              /\ UNCHANGED <<out_list, fillVars>>
         ELSE /\ out_list' = res.value
              /\ IF keep_consensus
                 THEN /\ map_pc' = "filling"
                      /\ consensus_list' = res.value
                      /\ fill_in' = res.value
                      /\ fill_pc' = "called"
                      /\ UNCHANGED <<defs, key_i, fill_ret>>
                 ELSE /\ map_pc' = "assigned"
                      /\ UNCHANGED fillVars
    /\ UNCHANGED <<top, consensus_dict, restrict_to_residxs, keep_consensus,
                   alignment, map_ret>>
    /\ UNCHANGED <<recVars, restVars>>

\* lines 908-909: out_list = _fill_CGN_gaps(out_list, ...); return out_list
MapReturn ==
    /\ \/ /\ map_pc = "assigned"
          /\ map_ret' = out_list
          /\ map_pc' = "done"
          /\ UNCHANGED out_list
       \/ /\ map_pc = "filling"
          /\ fill_pc = "done"
          /\ out_list' = fill_ret
          /\ map_ret' = fill_ret
          /\ map_pc' = "done"
       \/ /\ map_pc = "filling"
          /\ fill_pc = "raised"
          /\ map_pc' = "raised"
          /\ UNCHANGED <<out_list, map_ret>>
    /\ UNCHANGED <<top, consensus_dict, restrict_to_residxs, keep_consensus,
                   alignment>>
    /\ UNCHANGED <<fillVars, recVars, restVars>>

\* a caller maps a topology onto a reference table
InitMap ==
    /\ top \in Topologies
    /\ consensus_dict \in Tables
    /\ restrict_to_residxs \in Restrictions(Len(top))
    /\ keep_consensus \in BOOLEAN
    /\ alignment = <<>>
    /\ out_list = <<>>
    /\ map_ret = <<>>
    /\ map_pc = "called"
    /\ FillIdle
    /\ RecIdle
    /\ RestIdle

\* out_list and the filler's consensus_list are one list object
mapVarsButOutList == <<top, consensus_dict, restrict_to_residxs, keep_consensus,
                       alignment, map_ret, map_pc>>

NextMap ==
    \/ MapAlign
    \/ MapAssign
    \/ (FillStart /\ UNCHANGED <<mapVars, recVars, restVars>>)
    \/ (FillKey /\ out_list' = consensus_list'
          /\ UNCHANGED <<mapVarsButOutList, recVars, restVars>>)
    \/ (FillReturn /\ UNCHANGED <<mapVars, recVars, restVars>>)
    \/ MapReturn

SpecMap == InitMap /\ [][NextMap]_vars

----------------------------------------------------------------------------
(* The reconciliation as a process: call, prompt, answer *)

\* fragments.py lines 550-566 and 573-574 / nomenclature_utils.py lines
\* 648-663: no clash returns the definition, a clash prints and calls input()
RecCall ==
    /\ rec_pc = "called"
    /\ ifrags' = ifrags_of(sub_frag, fragments)
    /\ frag_cands' = frag_cands_of(ifrags')
    /\ IF is_clash(frag_cands', rec_inline, keep_all)
       THEN /\ n_inputs' = n_inputs + 1
            /\ rec_pc' = "asked"
            /\ UNCHANGED rec_ret
       ELSE /\ rec_ret' = sub_frag
            /\ rec_pc' = "returned"
            /\ UNCHANGED n_inputs
    /\ UNCHANGED <<sub_frag, fragments, keep_all, rec_inline, answr>>
    /\ UNCHANGED <<fillVars, mapVars, restVars>>

\* fragments.py lines 566-572 / nomenclature_utils.py lines 663-669: the
\* answer is read, expanded, validated and applied
RecAnswer ==
    /\ rec_pc = "asked"
    /\ \E txt \in Answers :
          /\ answr' = txt
          /\ LET res == answer_result(txt, sub_frag, ifrags) IN
               IF res.raised
               THEN /\ rec_pc' = "raised"
                    /\ UNCHANGED rec_ret
               ELSE /\ rec_ret' = res.value
                    /\ rec_pc' = "returned"
    /\ UNCHANGED <<sub_frag, fragments, keep_all, rec_inline, ifrags,
                   frag_cands, n_inputs>>
    /\ UNCHANGED <<fillVars, mapVars, restVars>>

\* a caller reconciles a definition with a fragment list
InitRec ==
    /\ sub_frag \in Definitions
    /\ fragments \in FragmentLists
    /\ keep_all \in BOOLEAN
    /\ rec_inline \in BOOLEAN
    /\ ifrags = <<>>
    /\ frag_cands = <<>>
    /\ answr = <<>>
    /\ n_inputs = 0
    /\ rec_ret = <<>>
    /\ rec_pc = "called"
    /\ FillIdle
    /\ MapIdle
    /\ RestIdle

NextRec == RecCall \/ RecAnswer

SpecRec == InitRec /\ [][NextRec]_vars

\* a caller hands a list of labels to the gap filler
InitFill ==
    /\ consensus_list \in ConsensusLists
    /\ fill_in = consensus_list
    /\ defs = <<>>
    /\ key_i = 0
    /\ fill_ret = <<>>
    /\ fill_pc = "called"
    /\ MapIdle
    /\ RecIdle
    /\ RestIdle

NextFill ==
    \/ (FillStart /\ UNCHANGED <<mapVars, recVars, restVars>>)
    \/ (FillKey /\ UNCHANGED <<mapVars, recVars, restVars>>)
    \/ (FillReturn /\ UNCHANGED <<mapVars, recVars, restVars>>)

SpecFill == InitFill /\ [][NextFill]_vars

----------------------------------------------------------------------------
(* per_residue_fragment_picker as a process: one step per descriptor *)

\* the descriptor the loop is at
pk_key == residue_descriptors[Len(residxs) + 1]

\* lines 442-499: the body of the loop for the next descriptor
PickDescriptor ==
    /\ pk_pc = "loop"
    /\ Len(residxs) < Len(residue_descriptors)
    /\ LET cands == _find_AA(pk_top, pk_key)
           cand_fragments == _in_what_N_fragments(cands, pk_fragments) IN
         IF is_not_found(cands)
         THEN /\ residxs' = Append(residxs, NoResidue)
              /\ fragidxs' = Append(fragidxs, NoFrag)
              /\ UNCHANGED <<last_answer, pk_typed, pk_pc>>
         ELSE IF Len(cands) = 1
         THEN /\ residxs' = Append(residxs, cands[1])
              /\ fragidxs' = Append(fragidxs, cand_fragments[1])
              /\ UNCHANGED <<last_answer, pk_typed, pk_pc>>
         ELSE \E typed \in (IF pick_this_fragment_by_default = NoDefault
                            THEN PickAnswers ELSE {<<>>}) :
                LET res == pick_ambiguous(
                               cands, cand_fragments,
                               answer_text(pick_this_fragment_by_default, typed),
                               last_answer) IN
                  /\ pk_typed' = IF pick_this_fragment_by_default = NoDefault
                                 THEN Append(pk_typed, typed) ELSE pk_typed
                  /\ IF res.raised
                     THEN /\ pk_pc' = "raised"
                          /\ UNCHANGED <<residxs, fragidxs, last_answer>>
                     ELSE /\ residxs' = Append(residxs, res.residx)
                          /\ fragidxs' = Append(fragidxs, res.fragidx)
                          /\ last_answer' = res.fragidx
                          /\ UNCHANGED pk_pc
    /\ UNCHANGED <<pk_top, pk_fragments, residue_descriptors,
                   pick_this_fragment_by_default>>
    /\ UNCHANGED notPickVars

\* line 501: return residxs, fragidxs
PickReturn ==
    /\ pk_pc = "loop"
    /\ Len(residxs) = Len(residue_descriptors)
    /\ pk_pc' = "returned"
    /\ UNCHANGED <<pk_top, pk_fragments, residue_descriptors,
                   pick_this_fragment_by_default, residxs, fragidxs,
                   last_answer, pk_typed>>
    /\ UNCHANGED notPickVars

\* a caller resolves descriptors against a topology and its fragments
InitPick ==
    /\ pk_top \in PickTopologies
    /\ pk_fragments \in PartitionsFrom(0, Len(pk_top))
    /\ residue_descriptors \in DescriptorLists
    /\ pick_this_fragment_by_default \in PickDefaults
    /\ residxs = <<>>
    /\ fragidxs = <<>>
    /\ last_answer = 0
    /\ pk_typed = <<>>
    /\ pk_pc = "loop"
    /\ FillIdle
    /\ MapIdle
    /\ RecIdle
    /\ LabIdle
    /\ GfIdle
    /\ OrdIdle
    /\ GmIdle

NextPick == PickDescriptor \/ PickReturn

SpecPick == InitPick /\ [][NextPick]_vars

----------------------------------------------------------------------------
(* One labeler used for a sequence of calls *)

\* the map a method works on: the one passed, or one computed on the fly
maps_for(lab, tp, map, fill_gaps) ==
    IF map # NoMap THEN {[raised |-> FALSE, value |-> map]}
    ELSE _top2consensus_map(lab.AA2conlab, tp, NoneIdxs, fill_gaps)

\* lines 567-571: top2map(top, fill_gaps=...)
LabTop2map ==
    \E tp \in LabTopologies, fill_gaps \in BOOLEAN :
    \E m \in maps_for(labeler, tp, NoMap, fill_gaps) :
        /\ lab_call' = [method |-> "top2map", top |-> tp, map |-> NoMap,
                        fill_gaps |-> fill_gaps]
        /\ lab_result' = [raised |-> m.raised, value |-> m.value, map |-> m.value]
        /\ labeler' = self_after_call(labeler, lab_result')
        /\ lab_prev_top' = lab_call.top
        /\ UNCHANGED lab_table
        /\ UNCHANGED notLabVars

\* lines 506-523: conlab2residx(top, map=..., keep_consensus=...)
LabConlab2residx ==
    \E tp \in LabTopologies, fill_gaps \in BOOLEAN :
    \E map \in {NoMap} \cup LabMaps(Len(tp)) :
    \E m \in maps_for(labeler, tp, map, fill_gaps) :
        /\ map # NoMap => (~fill_gaps /\ \A j \in 1..Len(tp) : tp[j].code = "A")
        /\ lab_call' = [method |-> "conlab2residx", top |-> tp, map |-> map,
                        fill_gaps |-> fill_gaps]
        /\ lab_result' =
              IF m.raised THEN [raised |-> TRUE, value |-> <<>>, map |-> <<>>]
              ELSE [raised |-> conlab2residx(m.value).raised,
                    value |-> conlab2residx(m.value).value,
                    map |-> m.value]
        /\ labeler' = self_after_call(labeler, lab_result')
        /\ lab_prev_top' = lab_call.top
        /\ UNCHANGED lab_table
        /\ UNCHANGED notLabVars

\* lines 629-678: top2defs(top, map=..., return_defs=True, fill_gaps=...)
LabTop2defs ==
    \E tp \in LabTopologies, fill_gaps \in BOOLEAN :
    \E map \in {NoMap} \cup LabMaps(Len(tp)) :
    \E m \in maps_for(labeler, tp, map, fill_gaps) :
        /\ map # NoMap => (~fill_gaps /\ \A j \in 1..Len(tp) : tp[j].code = "A")
        /\ lab_call' = [method |-> "top2defs", top |-> tp, map |-> map,
                        fill_gaps |-> fill_gaps]
        /\ lab_result' =
              IF m.raised THEN [raised |-> TRUE, value |-> <<>>, map |-> <<>>]
              ELSE [raised |-> top2defs(labeler, m.value).raised,
                    value |-> top2defs(labeler, m.value).value,
                    map |-> m.value]
        /\ labeler' = self_after_call(labeler, lab_result')
        /\ lab_prev_top' = lab_call.top
        /\ UNCHANGED lab_table
        /\ UNCHANGED notLabVars

\* a caller constructs a labeler from a table
InitLab ==
    /\ lab_table \in LabTables
    /\ labeler = LabelerCGN(lab_table)
    /\ lab_call = [method |-> "none", top |-> <<>>, map |-> NoMap,
                   fill_gaps |-> FALSE]
    /\ lab_result = [raised |-> FALSE, value |-> <<>>, map |-> <<>>]
    /\ lab_prev_top = <<>>
    /\ FillIdle
    /\ MapIdle
    /\ RecIdle
    /\ PickIdle
    /\ GfIdle
    /\ OrdIdle
    /\ GmIdle

NextLab == LabTop2map \/ LabConlab2residx \/ LabTop2defs

SpecLab == InitLab /\ [][NextLab]_vars

----------------------------------------------------------------------------
(* get_fragments as a call *)

\* the breaker makes the picker call input()
gf_prompts ==
    /\ gf_call.breaker # NoBreaker
    /\ gf_call.default = NoDefault
    /\ Len(_find_AA(gf_call.top, gf_call.breaker)) > 1

\* lines 144-263
GetFragments ==
    /\ gf_pc = "called"
    /\ \E typed \in (IF gf_prompts THEN PickAnswers ELSE {<<>>}) :
          LET res == get_fragments(gf_call.top, gf_call.method, gf_call.breaker,
                                   gf_call.default, typed) IN
            /\ gf_typed' = typed
            /\ gf_ret' = res.value
            /\ gf_pc' = IF res.raised THEN "raised" ELSE "returned"
    /\ UNCHANGED gf_call
    /\ UNCHANGED notGfVars

InitFrag ==
    /\ gf_call \in GfCalls
    /\ gf_typed = <<>>
    /\ gf_ret = <<>>
    /\ gf_pc = "called"
    /\ FillIdle
    /\ MapIdle
    /\ RecIdle
    /\ PickIdle
    /\ LabIdle
    /\ OrdIdle
    /\ GmIdle

NextFrag == GetFragments

SpecFrag == InitFrag /\ [][NextFrag]_vars

----------------------------------------------------------------------------
(* order_BW as a process: one step per fragment name, then the rest *)

\* lines 1386-1392: the labels of the next fragment name are appended
OrderName ==
    /\ ord_pc = "names"
    /\ ord_i < Len(BW_fragment_names)
    /\ labs_out' = labs_out \o toappend(BW_fragment_names[ord_i + 1], consensus_labels)
    /\ ord_i' = ord_i + 1
    /\ UNCHANGED <<consensus_labels, ord_pc>>
    /\ UNCHANGED notOrdVars

\* lines 1393-1396: the remaining labels are appended and the list returned
OrderReturn ==
    /\ ord_pc = "names"
    /\ ord_i = Len(BW_fragment_names)
    /\ labs_out' = append_missing(labs_out, consensus_labels)
    /\ ord_pc' = "returned"
    /\ UNCHANGED <<consensus_labels, ord_i>>
    /\ UNCHANGED notOrdVars

\* a caller orders a list of labels
InitOrd ==
    /\ consensus_labels \in OrdLabelLists
    /\ labs_out = <<>>
    /\ ord_i = 0
    /\ ord_pc = "names"
    /\ FillIdle
    /\ MapIdle
    /\ RecIdle
    /\ PickIdle
    /\ LabIdle
    /\ GfIdle
    /\ GmIdle

NextOrd == OrderName \/ OrderReturn

SpecOrd == InitOrd /\ [][NextOrd]_vars

----------------------------------------------------------------------------
(* guess_missing_BWs as a process: one step per residue of the loop *)

\* lines 780-784: restrict_to_residxs and out_list
GuessStart ==
    /\ gm_pc = "called"
    /\ gm_out' = [j \in 1..Len(gm_top) |-> None]
    /\ gm_pc' = "loop"
    /\ UNCHANGED <<input_BW_dict, gm_top, gm_restrict, gm_i, key_above,
                   key_below, gm_ret>>
    /\ UNCHANGED notGmVars

\* lines 785-822: the body of the loop for the next residue
GuessResidue ==
    /\ gm_pc = "loop"
    /\ gm_i < Len(restricted_idxs(gm_top, gm_restrict))
    /\ LET rr == restricted_idxs(gm_top, gm_restrict)[gm_i + 1]
           res == guess_one(input_BW_dict, gm_top[rr + 1], key_above, key_below) IN
         /\ key_above' = res.above
         /\ key_below' = res.below
         /\ IF res.raised
            THEN /\ gm_pc' = "raised"
                 /\ UNCHANGED <<gm_out, gm_i>>
            ELSE /\ gm_out' = [gm_out EXCEPT ![rr + 1] = res.value]
                 /\ gm_i' = gm_i + 1
                 /\ UNCHANGED gm_pc
    /\ UNCHANGED <<input_BW_dict, gm_top, gm_restrict, gm_ret>>
    /\ UNCHANGED notGmVars

\* line 843: return out_list (keep_keys=False)
GuessReturn ==
    /\ gm_pc = "loop"
    /\ gm_i = Len(restricted_idxs(gm_top, gm_restrict))
    /\ gm_ret' = gm_out
    /\ gm_pc' = "returned"
    /\ UNCHANGED <<input_BW_dict, gm_top, gm_restrict, gm_out, gm_i,
                   key_above, key_below>>
    /\ UNCHANGED notGmVars

\* a caller asks for the labels of a topology from a table
InitGm ==
    /\ input_BW_dict \in Tables
    /\ gm_top \in Topologies
    /\ gm_restrict \in Restrictions(Len(gm_top))
    /\ gm_out = <<>>
    /\ gm_i = 0
    /\ key_above = Unbound
    /\ key_below = Unbound
    /\ gm_ret = <<>>
    /\ gm_pc = "called"
    /\ FillIdle
    /\ MapIdle
    /\ RecIdle
    /\ PickIdle
    /\ LabIdle
    /\ GfIdle
    /\ OrdIdle

NextGm == GuessStart \/ GuessResidue \/ GuessReturn

SpecGm == InitGm /\ [][NextGm]_vars

----------------------------------------------------------------------------
(* Properties of the gap filler and of _map2defs (SpecFill) *)

\* positions of the dots of a label
DotPositions(s) == {p \in 1..Len(s) : s[p] = "."}

TextBeforeFirstDot(s) == SubSeq(s, 1, Min(DotPositions(s)) - 1)
TextBeforeLastDot(s) == SubSeq(s, 1, Max(DotPositions(s)) - 1)

\* the subdomain a label belongs to, as the grouping rule states it
SubdomainOf(s) ==
    IF isnumeric(s[1]) THEN TextBeforeFirstDot(s) ELSE TextBeforeLastDot(s)

LabelledIdxs(clist) == {ii \in 0..(Len(clist) - 1) : clist[ii + 1] # None}

DefsComputed == fill_pc \in {"loop", "done"}

\* C7: _map2defs puts every labelled index under the text before the first
\* dot (label starting with a digit) or before the last dot (label starting
\* with a letter), each value is the ascending list of the indices of its
\* key, None entries are in no value, and the values partition the labelled
\* indices.
C7_Map2DefsGroups ==
    DefsComputed =>
        /\ \A ii \in LabelledIdxs(fill_in) :
              \E j \in 1..Len(defs) :
                  /\ defs[j].key = SubdomainOf(fill_in[ii + 1])
                  /\ ii \in SeqToSet(defs[j].val)
        /\ \A j \in 1..Len(defs) :
              /\ \A a, b \in 1..Len(defs[j].val) :
                    a < b => defs[j].val[a] < defs[j].val[b]
              /\ SeqToSet(defs[j].val) =
                    {ii \in LabelledIdxs(fill_in) :
                        SubdomainOf(fill_in[ii + 1]) = defs[j].key}
              /\ defs[j].val # <<>>
        /\ \A j, k \in 1..Len(defs) :
              j # k => /\ defs[j].key # defs[k].key
                       /\ SeqToSet(defs[j].val) \cap SeqToSet(defs[k].val) = {}
        /\ UNION {SeqToSet(defs[j].val) : j \in 1..Len(defs)}
              = LabelledIdxs(fill_in)

\* both grammars grouped in one list, with a None entry in between
C7_Witness ==
    /\ DefsComputed
    /\ \E j, k \in 1..Len(defs) :
          /\ defs[j].key = <<"3">>
          /\ defs[k].key = <<"G", ".", "H", "5">>
          /\ Len(defs[k].val) = 2
    /\ \E ii \in 1..Len(fill_in) : fill_in[ii] = None

\* the span first..last of an item of defs
Span(val) == val[1]..Last(val)

\* the label the claim predicts at index ii: prefix.(n0 + k)
Predicted(clist, item, ii) ==
    item.key \o <<".">>
        \o str(int(Last(split(clist[item.val[1] + 1], "."))) + (ii - item.val[1]))

\* the first label of the run has a number
HasNumber(clist, item) == int(Last(split(clist[item.val[1] + 1], "."))) >= 0

HasGap(clist, item) == \E ii \in Span(item.val) : clist[ii + 1] = None

\* every existing label of the span is the predicted one
ConsistentRun(clist, item) ==
    /\ HasNumber(clist, item)
    /\ \A ii \in Span(item.val) :
          clist[ii + 1] # None => clist[ii + 1] = Predicted(clist, item, ii)

\* C4: after the fill, every None inside the span of a subdomain whose
\* existing labels all count up from the first label holds the label
\* prefix.(n0 + k).
C4_ConsistentRunFilled ==
    fill_pc = "done" =>
        \A j \in 1..Len(defs) :
            (HasGap(fill_in, defs[j]) /\ ConsistentRun(fill_in, defs[j])) =>
                \A ii \in Span(defs[j].val) :
                    fill_in[ii + 1] = None =>
                        fill_ret[ii + 1] = Predicted(fill_in, defs[j], ii)

\* a consistent run with a gap was filled, the decimal carry 3.9 -> 3.10
\* included
C4_Witness ==
    /\ fill_pc = "done"
    /\ \E j \in 1..Len(defs) :
          /\ HasGap(fill_in, defs[j])
          /\ ConsistentRun(fill_in, defs[j])
          /\ \E ii \in Span(defs[j].val) :
                /\ fill_in[ii + 1] = None
                /\ fill_ret[ii + 1] = <<"3", ".", "9">>
          /\ fill_ret[Last(defs[j].val) + 1] = <<"3", ".", "1", "0">>

\* an existing entry of the span differs from the prediction
InconsistentRun(clist, item) ==
    \E ii \in Span(item.val) :
        /\ clist[ii + 1] # None
        /\ ~(HasNumber(clist, item) /\ clist[ii + 1] = Predicted(clist, item, ii))

\* C5: the walk of a subdomain one of whose existing entries (a label of
\* another subdomain inside the span included) differs from the prediction
\* fills no None entry of that span.
C5_InconsistentRunRefused ==
    [][ (/\ fill_pc = "loop"
         /\ key_i < Len(defs)
         /\ InconsistentRun(fill_in, defs[key_i + 1]))
        => \A ii \in Span(defs[key_i + 1].val) :
               consensus_list[ii + 1] = None => consensus_list'[ii + 1] = None
      ]_vars

\* the walk of an inconsistent run with a None inside has been made, and the
\* disagreeing entry is a label of another subdomain
C5_Witness ==
    /\ fill_pc \in {"loop", "done"}
    /\ key_i >= 1
    /\ HasGap(fill_in, defs[key_i])
    /\ InconsistentRun(fill_in, defs[key_i])
    /\ \E ii \in Span(defs[key_i].val) :
          /\ fill_in[ii + 1] # None
          /\ SubdomainOf(fill_in[ii + 1]) # defs[key_i].key

\* C6: after the call the caller's list has the entries it had before.
C6_CallerListUnchanged ==
    fill_pc = "done" => consensus_list = fill_in

----------------------------------------------------------------------------
(* Properties of _top2consensus_map (SpecMap) *)

MapReturned == map_pc = "done"

\* C1: the returned list has one entry per residue of the topology, and every
\* residue index outside restrict_to_residxs holds None, with gap filling on
\* or off.
C1_LengthAndUnselectedNone ==
    MapReturned =>
        /\ Len(map_ret) = Len(top)
        /\ \A ii \in 0..(Len(top) - 1) :
              ii \notin SeqToSet(restricted_idxs(top, restrict_to_residxs))
                  => map_ret[ii + 1] = None

\* the label the table gives to the residue AA + number
TableLabelOf(cdict, AA, num) ==
    LET hits == {j \in 1..Len(cdict) :
                    /\ _name_from_AA(cdict[j].key) = <<AA>>
                    /\ _int_from_AA_code(cdict[j].key) = num}
    IN IF hits = {} THEN None ELSE cdict[CHOOSE j \in hits : TRUE].label

\* C2: with gap filling off, entry i is the table's label of reference AA +
\* reference number of the record with match = true whose input index is i,
\* and None when the alignment has no such record; a record with match = false
\* gives no label.
C2_LabelsFromMatchedRecords ==
    (MapReturned /\ ~keep_consensus) =>
        \A ii \in 0..(Len(top) - 1) :
            LET hits == {p \in 1..Len(alignment) :
                            alignment[p].match /\ alignment[p].idx_0 = ii}
            IN IF hits = {}
               THEN map_ret[ii + 1] = None
               ELSE \A p \in hits :
                       /\ map_ret[ii + 1] # None
                       /\ map_ret[ii + 1] =
                            TableLabelOf(consensus_dict, alignment[p].AA_1,
                                         alignment[p].idx_1)

\* a returned map with a matched residue, a mismatched residue (both sides
\* present, different letters) and therefore a None entry
C2_Witness ==
    /\ MapReturned
    /\ ~keep_consensus
    /\ \E p, q \in 1..Len(alignment) :
          /\ alignment[p].match
          /\ map_ret[alignment[p].idx_0 + 1] # None
          /\ ~alignment[q].match
          /\ alignment[q].idx_0 # NoIdx
          /\ alignment[q].idx_1 # NoIdx
          /\ map_ret[alignment[q].idx_0 + 1] = None

\* the topology is the reference: residue i is the i-th key of the table
TopIsReference ==
    /\ Len(top) = Len(consensus_dict)
    /\ \A j \in 1..Len(top) :
          /\ top[j].code # NoCode
          /\ consensus_dict[j].key = <<top[j].code>> \o str(top[j].resSeq)

\* C3: for a topology identical to the reference, the call with gap filling
\* off returns, and the returned map has no None entry and holds the table's
\* i-th value at index i.
C3_RoundTrip ==
    (/\ map_pc \in {"done", "raised"}
     /\ ~keep_consensus
     /\ restrict_to_residxs = NoneIdxs
     /\ TopIsReference)
    => /\ MapReturned
       /\ Len(map_ret) = Len(consensus_dict)
       /\ \A j \in 1..Len(consensus_dict) :
             /\ map_ret[j] # None
             /\ map_ret[j] = consensus_dict[j].label

\* the round trip of a reference of MaxRes residues with both letters
C3_Witness ==
    /\ MapReturned
    /\ ~keep_consensus
    /\ restrict_to_residxs = NoneIdxs
    /\ TopIsReference
    /\ Len(top) >= 3
    /\ \E j, k \in 1..Len(top) : top[j].code # top[k].code

----------------------------------------------------------------------------
(* Properties of the reconciliation (SpecRec) *)

\* the fragments that hold a residue of the definition
TouchedFragments ==
    {j \in 0..(Len(fragments) - 1) :
        SeqToSet(sub_frag) \cap SeqToSet(fragments[j + 1]) # {}}

\* the residues of the definition that lie in some fragment
TouchedResidues ==
    {r \in SeqToSet(sub_frag) :
        \E j \in 1..Len(fragments) : r \in SeqToSet(fragments[j])}

RecEnded == rec_pc \in {"returned", "raised"}

\* C8: a definition inside one fragment, or any definition with keep_all
\* set, is returned unchanged by _check_if_subfragment without a prompt.
C8_NoClashUnchanged ==
    (/\ RecEnded
     /\ ~rec_inline
     /\ \/ \E j \in 1..Len(fragments) :
              SeqToSet(sub_frag) \subseteq SeqToSet(fragments[j])
        \/ keep_all)
    => /\ rec_pc = "returned"
       /\ rec_ret = sub_frag
       /\ n_inputs = 0

\* keep_all returned a definition that touches three fragments
C8_Witness ==
    /\ rec_pc = "returned"
    /\ ~rec_inline
    /\ keep_all
    /\ Cardinality(TouchedFragments) = 3
    /\ rec_ret = sub_frag

\* the fragment indices typed, when the text is a range expression
Selected == SeqToSet(_rangeexpand(answr).value)

Asked == n_inputs > 0

\* C9: after a clash, a selection with a fragment index that is no candidate
\* ends both reconciliations with an error and without a residue list.
C9_InvalidSelectionRaises ==
    (/\ RecEnded
     /\ Asked
     /\ ~_rangeexpand(answr).raised
     /\ ~(Selected \subseteq TouchedFragments))
    => /\ rec_pc = "raised"
       /\ rec_ret = <<>>

\* the selection 0-2 was refused for a definition that touches fragments 0
\* and 1 only, in the inline check of top2defs
C9_Witness ==
    /\ rec_pc = "raised"
    /\ rec_inline
    /\ Asked
    /\ answr = <<"0", "-", "2">>
    /\ TouchedFragments = {0, 1}

\* the residues a selection keeps
KeptBy(sel) ==
    {r \in SeqToSet(sub_frag) :
        \E j \in sel : j < Len(fragments) /\ r \in SeqToSet(fragments[j + 1])}

\* C10: after a clash, a selection that keeps at least as many residues as
\* the definition has inside the fragments it touches (such as the selection
\* of every candidate) raises, whether or not the fragments cover the
\* definition.
C10_NoOpSelectionRaises ==
    (/\ RecEnded
     /\ Asked
     /\ ~_rangeexpand(answr).raised
     /\ Cardinality(KeptBy(Selected)) >= Cardinality(TouchedResidues))
    => rec_pc = "raised"

\* the residues of the definition, in its order, that lie in a fragment of sel
RECURSIVE ResiduesInFragments(_, _, _)
ResiduesInFragments(sf, frags, sel) ==
    IF sf = <<>> THEN <<>>
    ELSE (IF \E j \in sel : j < Len(frags) /\ Head(sf) \in SeqToSet(frags[j + 1])
          THEN <<Head(sf)>> ELSE <<>>)
         \o ResiduesInFragments(Tail(sf), frags, sel)

\* C11: after a clash, an accepted selection returns exactly the residues of
\* the definition whose fragment is selected, each once and in the order of
\* the definition; residues of unselected fragments and residues in no
\* fragment are dropped.
C11_ValidSelectionKeepsSelected ==
    (rec_pc = "returned" /\ Asked) =>
        /\ rec_ret = ResiduesInFragments(sub_frag, fragments, Selected)
        /\ \A a, b \in 1..Len(rec_ret) : a # b => rec_ret[a] # rec_ret[b]
        /\ \A r \in SeqToSet(sub_frag) :
              (r \notin TouchedResidues \/ r \notin KeptBy(Selected))
                  => r \notin SeqToSet(rec_ret)

\* an accepted selection dropped a residue of an unselected fragment and a
\* residue that lies in no fragment, and kept two residues
C11_Witness ==
    /\ rec_pc = "returned"
    /\ Asked
    /\ Len(rec_ret) = 2
    /\ \E r \in SeqToSet(sub_frag) : r \notin TouchedResidues
    /\ \E r \in TouchedResidues : r \notin SeqToSet(rec_ret)

\* the documented example: TM6 = [0,1,2,3] over [[0,1],[2,3],[4,...]]
DocstringExample ==
    /\ ~rec_inline
    /\ ~keep_all
    /\ sub_frag = <<0, 1, 2, 3>>
    /\ fragments = <<<<0, 1>>, <<2, 3>>, <<4>>>>

\* C12: in the documented example the answers '0', '1' and '0-1' are all
\* accepted and return [0,1], [2,3] and the intact definition [0,1,2,3].
C12_DocstringAnswersAccepted ==
    (RecEnded /\ DocstringExample) =>
        /\ answr = <<"0">> => (rec_pc = "returned" /\ rec_ret = <<0, 1>>)
        /\ answr = <<"1">> => (rec_pc = "returned" /\ rec_ret = <<2, 3>>)
        /\ answr = <<"0", "-", "1">> =>
              (rec_pc = "returned" /\ rec_ret = <<0, 1, 2, 3>>)

----------------------------------------------------------------------------
(* Properties of per_residue_fragment_picker (SpecPick) *)

\* the residues that descriptor k of the call matches
Matching(k) ==
    {ii \in 0..(Len(pk_top) - 1) :
        descriptor_matches(pk_top[ii + 1], residue_descriptors[k])}

\* the fragment a residue lies in
FragOf(ii) ==
    CHOOSE j \in 0..(Len(pk_fragments) - 1) : ii \in SeqToSet(pk_fragments[j + 1])

\* the fragments that hold a residue matching descriptor k
CandFrags(k) == {FragOf(ii) : ii \in Matching(k)}

Ambiguous(k) == Cardinality(Matching(k)) >= 2

\* the matches of descriptor k lie in pairwise distinct fragments
InDistinctFragments(k) == Cardinality(CandFrags(k)) = Cardinality(Matching(k))

\* the descriptors the loop has dealt with, the one it failed at included
Handled == 1..(Len(residxs) + (IF pk_pc = "raised" THEN 1 ELSE 0))

HasDefault == pick_this_fragment_by_default # NoDefault

\* C13: an ambiguous descriptor whose matches lie in distinct fragments, with
\* a default that is one of those fragments, is resolved to the match inside
\* the default fragment and to the default, without a failure and without
\* any request for input.
C13_DefaultResolvesAmbiguity ==
    \A k \in Handled :
        (/\ Ambiguous(k)
         /\ InDistinctFragments(k)
         /\ HasDefault
         /\ pick_this_fragment_by_default \in CandFrags(k))
        => /\ k <= Len(residxs)
           /\ residxs[k] \in Matching(k)
           /\ FragOf(residxs[k]) = pick_this_fragment_by_default
           /\ fragidxs[k] = pick_this_fragment_by_default
           /\ pk_typed = <<>>

\* a call returned the match in fragment 1 of a descriptor that also matches
\* in fragment 0, with default 1
C13_Witness ==
    /\ pk_pc = "returned"
    /\ pick_this_fragment_by_default = 1
    /\ \E k \in 1..Len(residxs) :
          /\ CandFrags(k) = {0, 1}
          /\ Cardinality(Matching(k)) = 2
          /\ FragOf(residxs[k]) = 1
          /\ fragidxs[k] = 1

\* C14: a descriptor that matches no residue gets None in both lists, does
\* not make the call fail, requests no input, and the loop goes on to the
\* descriptors after it.
C14_NoMatchIsNone ==
    /\ \A k \in Handled :
          Matching(k) = {} =>
              /\ k <= Len(residxs)
              /\ residxs[k] = NoResidue
              /\ fragidxs[k] = NoFrag
    /\ Len(pk_typed) <= Cardinality({k \in Handled : Ambiguous(k)})
    /\ pk_pc = "returned" => Len(residxs) = Len(residue_descriptors)

\* a call returned None for its first descriptor and a residue for the next
C14_Witness ==
    /\ pk_pc = "returned"
    /\ Len(residxs) = 2
    /\ Matching(1) = {}
    /\ residxs[1] = NoResidue
    /\ fragidxs[1] = NoFrag
    /\ residxs[2] # NoResidue
    /\ pk_typed = <<>>

\* the fragment index a text names: the default, the remembered answer for
\* the empty text, the number for digits; NoFrag for any other text
ChoiceOf(typed, last) ==
    IF HasDefault THEN pick_this_fragment_by_default
    ELSE IF typed = <<>> THEN last
    ELSE IF isdigit(typed) THEN int(typed)
    ELSE NoFrag

\* C15: for an ambiguous descriptor the fragment index returned is always a
\* fragment holding a matching residue, and a choice (typed number, empty
\* answer, default) outside that set ends the call with an error.
C15_OnlyCandidateFragments ==
    /\ [](\A k \in 1..Len(residxs) : Ambiguous(k) => fragidxs[k] \in CandFrags(k))
    /\ [][ (/\ pk_pc = "loop"
            /\ Len(residxs) < Len(residue_descriptors)
            /\ Ambiguous(Len(residxs) + 1)
            /\ LET typed == IF HasDefault THEN <<>> ELSE Last(pk_typed')
                   choice == ChoiceOf(typed, last_answer) IN
                 /\ HasDefault \/ typed = <<>> \/ isdigit(typed)
                 /\ choice \notin CandFrags(Len(residxs) + 1))
           => (pk_pc' = "raised" /\ residxs' = residxs /\ fragidxs' = fragidxs)
         ]_vars

\* a typed number, a remembered answer and a default outside the candidates
\* have each ended a call with an error; the picker was at an ambiguous
\* descriptor
C15_Witness ==
    /\ pk_pc = "raised"
    /\ Ambiguous(Len(residxs) + 1)
    /\ 2 \notin CandFrags(Len(residxs) + 1)
    /\ \/ pick_this_fragment_by_default = 2
       \/ (~HasDefault /\ Last(pk_typed) = <<"2">>)

----------------------------------------------------------------------------
(* The empty reference table (SpecMap) *)

\* C18: a call of the mapper with an empty reference table ends with an
\* error at once; it never gets to a label list and never returns one.
C18_EmptyTableRaises ==
    (consensus_dict = <<>> /\ map_pc # "called")
    => /\ map_pc = "raised"
       /\ alignment = <<>>
       /\ out_list = <<>>
       /\ map_ret = <<>>

\* the call with an empty table and a topology of MaxRes residues has failed
C18_Witness ==
    /\ consensus_dict = <<>>
    /\ map_pc = "raised"
    /\ Len(top) >= 3

----------------------------------------------------------------------------
(* Properties of the labeler (SpecLab) *)

\* two different positions of a map carry the same label
DuplicateIn(map) ==
    \E a, b \in 1..Len(map) : a < b /\ map[a] # None /\ map[a] = map[b]

\* conlab2residx got a map to work on (passed in, or computed without error)
Conlab2residxHadMap ==
    /\ lab_call.method = "conlab2residx"
    /\ Len(lab_result.map) = Len(lab_call.top)

\* C16: conlab2residx raises and returns no dictionary exactly when two
\* different positions of the map it works on (passed in or computed by
\* alignment) carry the same non-None label; None entries are no duplicates.
C16_DuplicateLabelRaises ==
    Conlab2residxHadMap =>
        /\ lab_result.raised <=> DuplicateIn(lab_result.map)
        /\ lab_result.raised => lab_result.value = <<>>
        /\ ~lab_result.raised =>
              \A ii \in 0..(Len(lab_result.map) - 1) :
                  lab_result.map[ii + 1] # None =>
                      dict_get(lab_result.value, lab_result.map[ii + 1]) = <<TRUE, ii>>

\* conlab2residx raised on a map with a repeated label that it computed by
\* alignment
C16_Witness ==
    /\ Conlab2residxHadMap
    /\ lab_call.map = NoMap
    /\ DuplicateIn(lab_result.map)
    /\ lab_result.raised

\* the outcomes a call has on a labeler
OutcomesOf(lab, call) ==
    { IF call.method = "top2map"
      THEN [raised |-> m.raised, value |-> m.value, map |-> m.value]
      ELSE IF m.raised THEN [raised |-> TRUE, value |-> <<>>, map |-> <<>>]
      ELSE IF call.method = "conlab2residx"
      THEN [raised |-> conlab2residx(m.value).raised,
            value |-> conlab2residx(m.value).value, map |-> m.value]
      ELSE [raised |-> top2defs(lab, m.value).raised,
            value |-> top2defs(lab, m.value).value, map |-> m.value]
      : m \in maps_for(lab, call.top, call.map, call.fill_gaps) }

C19_MutualInverses ==
    /\ \A j \in 1..Len(labeler.AA2conlab) :
          dict_get(labeler.conlab2AA, labeler.AA2conlab[j].label)
              = <<TRUE, labeler.AA2conlab[j].key>>
    /\ \A j \in 1..Len(labeler.conlab2AA) :
          dict_get(labeler.AA2conlab, labeler.conlab2AA[j].label)
              = <<TRUE, labeler.conlab2AA[j].key>>

----------------------------------------------------------------------------
(* Properties of get_fragments (SpecFrag) *)

\* C20: for a non-empty topology and each of the methods 'resSeq',
\* 'resSeq+', 'lig_resSeq+' and None, with or without a fragment breaker,
\* the fragments returned are a partition of the residue indices: none is
\* empty, no index is in two fragments or twice in one, and their union is
\* 0..n_residues-1.
C20_FragmentsPartition ==
    gf_pc = "returned" =>
        /\ \A j \in 1..Len(gf_ret) : gf_ret[j] # <<>>
        /\ \A j, k \in 1..Len(gf_ret) :
              j # k => SeqToSet(gf_ret[j]) \cap SeqToSet(gf_ret[k]) = {}
        /\ \A j \in 1..Len(gf_ret) :
              Cardinality(SeqToSet(gf_ret[j])) = Len(gf_ret[j])
        /\ UNION {SeqToSet(gf_ret[j]) : j \in 1..Len(gf_ret)}
              = 0..(Len(gf_call.top) - 1)

\* 'lig_resSeq+' with a breaker returned three fragments: the ligand was
\* taken out of its fragment and the rest was split at the breaker
C20_Witness ==
    /\ gf_pc = "returned"
    /\ gf_call.method = "lig_resSeq+"
    /\ gf_call.breaker # NoBreaker
    /\ Len(gf_call.top) = 3
    /\ Len(fragments_resSeq(gf_call.top)) = 1
    /\ Len(gf_ret) = 3

\* the residues other than 0 at which a fragment of frags starts
starts_of(frags) == {frags[j][1] : j \in 1..Len(frags)} \ {0}

\* C21: with method 'resSeq+' a new fragment starts at residue i (i > 0)
\* exactly when the sequence number decreases from residue i-1 to residue i:
\* positive jumps of any size start none, and every decrease does, a
\* decrease by 1 included.
C21_ResSeqPlusBreaksAtDecreases ==
    (gf_pc = "returned" /\ gf_call.method = "resSeq+"
        /\ gf_call.breaker = NoBreaker) =>
        \A i \in 1..(Len(gf_call.top) - 1) :
            i \in starts_of(gf_ret)
                <=> gf_call.top[i + 1].resSeq < gf_call.top[i].resSeq

----------------------------------------------------------------------------
(* Further properties of the gap filler (SpecFill) *)

\* a label that ends with the marker guess_missing_BWs appends
is_marked(label) == label # None /\ Last(label) = "*"

\* a token without its trailing characters that are no digits
RECURSIVE strip_marker(_)
strip_marker(tok) ==
    IF tok = <<>> \/ isnumeric(Last(tok)) THEN tok
    ELSE strip_marker(AllButLast(tok))

\* C22: the offset of a run is the number in the last dot-separated token of
\* the label at the run's first index after stripping a trailing marker, so
\* a run with a gap that starts with a marked label such as '3.8*' is walked
\* with that number as offset and the call does not fail at it.
C22_MarkedRunStartProcessed ==
    fill_pc \in {"loop", "raised", "done"} =>
        \A k \in 1..Len(defs) :
            (is_problem_case(defs[k].val)
                /\ is_marked(fill_in[defs[k].val[1] + 1])) =>
                /\ first_offset(fill_in, defs[k].val)
                      = int(strip_marker(Last(split(fill_in[defs[k].val[1] + 1], "."))))
                /\ ~(fill_pc = "raised" /\ key_i = k - 1)

\* the subdomain of the nearest label at or before (dir = -1) or at or after
\* (dir = 1) position j of clist; Raise when there is none
RECURSIVE nearest_key(_, _, _)
nearest_key(clist, j, dir) ==
    IF j < 1 \/ j > Len(clist) THEN Raise
    ELSE IF clist[j] # None THEN new_key(clist[j])
    ELSE nearest_key(clist, j + dir, dir)

\* position j lies strictly inside a validated subdomain of the input
inside_validated(j) ==
    \E k \in 1..Len(defs) :
        /\ Len(defs[k].val) >= 2
        /\ defs[k].val[1] < j - 1
        /\ j - 1 < Last(defs[k].val)
        /\ first_offset(fill_in, defs[k].val) >= 0
        /\ consensus_kept(fill_in, defs[k].key, defs[k].val)

\* C23: the gap filler changes nothing but None entries that lie strictly
\* between the first and the last labelled index of a validated subdomain:
\* the length stays, no label is overwritten or removed, and a None before
\* the first or after the last label of a subdomain, a None between two
\* different subdomains and a subdomain with a single label stay as they are.
C23_OnlyInnerGapsChange ==
    fill_pc \in {"loop", "raised", "done"} =>
        /\ Len(consensus_list) = Len(fill_in)
        /\ \A j \in 1..Len(fill_in) :
              /\ fill_in[j] # None => consensus_list[j] = fill_in[j]
              /\ consensus_list[j] # fill_in[j] =>
                    /\ inside_validated(j)
                    /\ nearest_key(fill_in, j, -1) = nearest_key(fill_in, j, 1)
                    /\ new_key(consensus_list[j]) = nearest_key(fill_in, j, 1)
        /\ fill_pc = "done" => fill_ret = consensus_list

\* the filler returned a list in which one gap was filled, while a None
\* outside the labels of the subdomain is as before
C23_Witness ==
    /\ fill_pc = "done"
    /\ \E j \in 1..Len(fill_in) : fill_ret[j] # fill_in[j]
    /\ \E j \in 1..Len(fill_in) : fill_ret[j] = None

----------------------------------------------------------------------------
(* Further properties of the reconciliation (SpecRec) *)

\* the definition clashes: it touches two or more fragments and keep_all,
\* where the function has it, is not set
Clashing ==
    Cardinality(TouchedFragments) >= 2 /\ (rec_inline \/ ~keep_all)

\* q is p without some of its elements
is_reduced(q, p) ==
    /\ Len(q) < Len(p)
    /\ \E P \in SUBSET (1..Len(p)) : q = select_positions(p, P)

\* the step that follows the prompt: the answer ends the call
answer_ends_call ==
    rec_pc = "asked" =>
        /\ rec_pc' \in {"returned", "raised"}
        /\ n_inputs' = n_inputs
        /\ rec_pc' = "returned" =>
              /\ is_reduced(rec_ret', sub_frag)
              /\ ~_rangeexpand(answr').raised
              /\ SeqToSet(_rangeexpand(answr').value) \subseteq TouchedFragments
        /\ rec_pc' = "raised" => rec_ret' = <<>>

\* an ended call takes no further step
ended_call_stays ==
    rec_pc \in {"returned", "raised"} =>
        (rec_pc' = rec_pc /\ n_inputs' = n_inputs)

\* C24: reconciliation asks at most once per clashing definition and does
\* not loop: input is requested exactly when the definition touches two or
\* more fragments and keep_all is not set, and after that single answer the
\* call returns the reduced residue list or raises; it never asks again.
C24_AsksOnce ==
    /\ [](n_inputs <= 1)
    /\ [](rec_pc \in {"asked", "returned", "raised"} =>
              (n_inputs = 1 <=> Clashing))
    /\ [][answer_ends_call]_vars
    /\ [][ended_call_stays]_vars

\* a clashing definition was asked about once and the answer was refused
C24_Witness ==
    /\ rec_pc = "raised"
    /\ n_inputs = 1
    /\ Clashing
    /\ ~_rangeexpand(answr).raised

----------------------------------------------------------------------------
(* Further properties of per_residue_fragment_picker (SpecPick) *)

\* the ambiguous descriptors that the call has resolved so far
ResolvedAmbiguous == {k \in 1..Len(residxs) : Ambiguous(k)}

\* the fragment chosen for the most recent resolved ambiguous descriptor,
\* 0 before any choice
Remembered ==
    IF ResolvedAmbiguous = {} THEN 0 ELSE fragidxs[Max(ResolvedAmbiguous)]

\* the step of an ambiguous descriptor that was answered with the empty text
empty_answer_step ==
    (/\ pk_pc = "loop"
     /\ Len(residxs) < Len(residue_descriptors)
     /\ Ambiguous(Len(residxs) + 1)
     /\ ~HasDefault
     /\ Len(pk_typed') = Len(pk_typed) + 1
     /\ Last(pk_typed') = <<>>)
    => LET k == Len(residxs) + 1
           inside == {ii \in Matching(k) : FragOf(ii) = Remembered} IN
       IF Cardinality(inside) = 1
       THEN /\ pk_pc' = "loop"
            /\ fragidxs' = Append(fragidxs, Remembered)
            /\ residxs' = Append(residxs, CHOOSE ii \in inside : TRUE)
       ELSE pk_pc' = "raised"

\* C25: within one call an empty answer selects the fragment chosen for the
\* most recent earlier ambiguous descriptor of that call (typed, given by
\* letter or taken from the default); before any choice it means fragment 0,
\* and the remembered answer is 0 when a call starts.
C25_EmptyAnswerRepeatsLast ==
    /\ [](last_answer = Remembered)
    /\ [](Len(residxs) = 0 => last_answer = 0)
    /\ [][empty_answer_step]_vars

\* the second ambiguous descriptor of a call was answered with the empty
\* text and got fragment 1, which a letter or a number had chosen for the first
C25_Witness ==
    /\ pk_pc = "returned"
    /\ Len(pk_typed) = 2
    /\ pk_typed[1] \in {<<"b">>, <<"1">>}
    /\ pk_typed[2] = <<>>
    /\ fragidxs = <<1, 1>>
    /\ FragOf(residxs[2]) = 1

\* the matches of descriptor k in the order they are listed at the prompt
Listed(k) == SortedSeq(Matching(k))

\* the text is one letter that the prompt listed next to a match of
\* descriptor k, and the step appended that match and its fragment
letter_selects(txt, k) ==
    /\ Len(txt) = 1
    /\ is_substring(txt, abc)
    /\ find(txt, abc) < Len(Listed(k))
    /\ residxs' = Append(residxs, Listed(k)[find(txt, abc) + 1])
    /\ fragidxs' = Append(fragidxs, FragOf(Listed(k)[find(txt, abc) + 1]))

\* the step of an ambiguous descriptor whose typed answer was accepted
accepted_answer_step ==
    (/\ pk_pc = "loop"
     /\ Len(residxs) < Len(residue_descriptors)
     /\ Ambiguous(Len(residxs) + 1)
     /\ ~HasDefault
     /\ Len(pk_typed') = Len(pk_typed) + 1
     /\ pk_pc' = "loop")
    => LET k == Len(residxs) + 1
           txt == Last(pk_typed') IN
       \/ txt = <<>>
       \/ isdigit(txt) /\ int(txt) \in CandFrags(k)
       \/ letter_selects(txt, k)

\* C26: for an ambiguous descriptor the only answers accepted are the empty
\* string, a digit string equal to a candidate fragment index, and a single
\* letter listed next to one of the candidates (the k-th letter selecting
\* the k-th listed candidate and its fragment); every other answer, such as
\* a multi-letter string or a letter beyond the listed candidates, ends the
\* call with an error and no result.
C26_OnlyListedAnswersAccepted ==
    [][accepted_answer_step]_vars

\* C27: gap filling is idempotent: for every label list on which the filler
\* returns, the filler applied to its own result returns the same list; a
\* second pass fills nothing more and changes nothing.
C27_FillIdempotent ==
    fill_pc = "done" =>
        /\ ~_fill_CGN_gaps(fill_ret).raised
        /\ _fill_CGN_gaps(fill_ret).value = fill_ret

\* the filler returned a list in which it had filled a gap of two slots, and
\* the second pass returns that list
C27_Witness ==
    /\ fill_pc = "done"
    /\ Cardinality({j \in 1..Len(fill_in) : fill_ret[j] # fill_in[j]}) = 2
    /\ _fill_CGN_gaps(fill_ret).value = fill_ret

\* C28: whenever the picker returns, its two lists have one entry per input
\* descriptor in input order, an entry is None in one list iff it is None in
\* the other, and every other pair is a residue that matches the descriptor
\* together with the index of the fragment it lies in; also when two
\* matching residues lie in one fragment and the choice is made by fragment
\* number.
C28_ResultShape ==
    pk_pc = "returned" =>
        /\ Len(residxs) = Len(residue_descriptors)
        /\ Len(fragidxs) = Len(residue_descriptors)
        /\ \A k \in 1..Len(residue_descriptors) :
              /\ residxs[k] = NoResidue <=> fragidxs[k] = NoFrag
              /\ residxs[k] # NoResidue =>
                    /\ residxs[k] \in Matching(k)
                    /\ fragidxs[k] \in 0..(Len(pk_fragments) - 1)
                    /\ residxs[k] \in SeqToSet(pk_fragments[fragidxs[k] + 1])

\* the picker returned for a descriptor with two matches in one fragment and
\* a third in another, chosen by the number of a fragment
C28_Witness ==
    /\ pk_pc = "returned"
    /\ Len(pk_typed) = 1
    /\ isdigit(pk_typed[1])
    /\ \E k \in 1..Len(residxs) :
          /\ Cardinality(Matching(k)) = 3
          /\ Cardinality(CandFrags(k)) = 2
          /\ residxs[k] # NoResidue

----------------------------------------------------------------------------
(* Properties of order_frags (SpecOrd) *)

\* the number of times x occurs in q
count_of(x, q) == Cardinality({j \in 1..Len(q) : q[j] = x})

\* C29: order_frags, and with it order_BW, returns a permutation of its
\* input labels: every input label is exactly once in the output, also a
\* label whose text starts with more than one fragment name ('12.48' and
\* the names '1' and '12').
C29_OrderIsPermutation ==
    ord_pc = "returned" =>
        /\ Len(labs_out) = Len(consensus_labels)
        /\ \A j \in 1..Len(consensus_labels) :
              count_of(consensus_labels[j], labs_out) = 1

----------------------------------------------------------------------------
(* Properties of guess_missing_BWs (SpecGm) *)

\* the residues the call is asked about
GmResidues == SeqToSet(restricted_idxs(gm_top, gm_restrict))

\* the positions of the table keys nearest in sequence number to resSeq
NearestKeys(resSeq) ==
    {j \in 1..Len(input_BW_dict) :
        \A k \in 1..Len(input_BW_dict) :
            abs(resSeq - _int_from_AA_code(input_BW_dict[j].key))
                <= abs(resSeq - _int_from_AA_code(input_BW_dict[k].key))}

\* base.(n + resSeq - resSeq_k)* for the label base.n of table entry j
GuessFrom(j, resSeq) ==
    LET toks == split(input_BW_dict[j].label, ".") IN
    toks[1] \o <<".">>
        \o fmt_u(int(toks[2]) + resSeq - _int_from_AA_code(input_BW_dict[j].key))
        \o <<"*">>

\* C30: for every topology and every non-empty table guess_missing_BWs
\* returns a list of length n_residues in which a residue of
\* restrict_to_residxs whose code+resSeq key is in the table keeps the
\* table's label, and every other residue of restrict_to_residxs gets
\* base.(n + resSeq - resSeq_k)* from the label base.n of the table key k
\* nearest in sequence number, also when its sequence number is above or
\* below all table keys.
C30_GuessFromNearestKey ==
    (gm_pc \in {"returned", "raised"} /\ input_BW_dict # <<>>) =>
        /\ gm_pc = "returned"
        /\ Len(gm_ret) = Len(gm_top)
        /\ \A rr \in GmResidues :
              LET key == residue_key(gm_top[rr + 1]) IN
              IF dict_get(input_BW_dict, key)[1]
              THEN gm_ret[rr + 1] = dict_get(input_BW_dict, key)[2]
              ELSE \E j \in NearestKeys(gm_top[rr + 1].resSeq) :
                      gm_ret[rr + 1] = GuessFrom(j, gm_top[rr + 1].resSeq)

====
